---- MODULE Spec2Model ----
(***************************************************************************)
(* A model of pantui's HLS parsing core (internal/hls/parser.go) and of    *)
(* the attribute tokenizers of the parser and of the manifest renderer.    *)
(*                                                                         *)
(* Text is a sequence of atoms.  The punctuation the code inspects (#, :,  *)
(* =, comma, double quote, blank, CR, LF) is one atom per character; a run *)
(* of other characters the code never looks into (EXT, -X-KEY, a.ts, ...)  *)
(* is one atom.  Every string function of the Go library the code calls is *)
(* an operator over such sequences, computed the way the library does.     *)
(***************************************************************************)
EXTENDS Integers, Sequences, FiniteSets, TLC

(***************************************************************************)
(* Bounds of the model.                                                    *)
(***************************************************************************)
\* Longest document, in lines, of the media-manifest specification.
MaxMediaLines == 5

\* Longest document, in lines, of the mixed master/media specification.
MaxDocLines == 4

\* Longest attribute string, in atoms, handed to the tokenizers.
MaxAttrLen == 5

\* Longest document, in lines, of the malformed-content specification.
MaxBadLines == 4

\* Longest attribute string, in atoms, handed to parseAttributes.
MaxPairsLen == 6

(***************************************************************************)
(* Go library constant: bufio.MaxScanTokenSize, the largest line the       *)
(* bufio.Scanner of parseMasterManifest / parseMediaManifest can return.   *)
(***************************************************************************)
MaxScanTokenSize == 65536

(***************************************************************************)
(* Atoms.                                                                  *)
(***************************************************************************)
\* An atom standing for a run of MaxScanTokenSize ordinary characters.
LongRun == "x*65536"

Whitespace == {" ", "\t", "\r", "\n"}

Digits == {"0", "1", "2", "3", "4", "5", "6", "7", "8", "9"}

DigitVal ==
    ("0" :> 0) @@ ("1" :> 1) @@ ("2" :> 2) @@ ("3" :> 3) @@ ("4" :> 4) @@
    ("5" :> 5) @@ ("6" :> 6) @@ ("7" :> 7) @@ ("8" :> 8) @@ ("9" :> 9)

\* Byte length of the atoms that stand for more than one character.
WordLen ==
    ("EXT" :> 3) @@ ("M3U" :> 3) @@ ("INF" :> 3) @@
    ("-X-VERSION" :> 10) @@ ("-X-TARGETDURATION" :> 17) @@
    ("-X-MEDIA-SEQUENCE" :> 17) @@ ("-X-BYTERANGE" :> 12) @@
    ("-X-KEY" :> 6) @@ ("-X-MAP" :> 6) @@ ("-X-ENDLIST" :> 10) @@
    ("-X-STREAM-INF" :> 13) @@ ("-X-I-FRAME-STREAM-INF" :> 21) @@
    ("-X-MEDIA" :> 8) @@
    ("METHOD" :> 6) @@ ("URI" :> 3) @@ ("IV" :> 2) @@ ("KEYFORMAT" :> 9) @@
    ("BYTERANGE" :> 9) @@ ("BANDWIDTH" :> 9) @@ ("RESOLUTION" :> 10) @@
    ("CODECS" :> 6) @@ ("AES-128" :> 7) @@ ("NONE" :> 4) @@
    ("k1" :> 2) @@ ("k2" :> 2) @@ ("init1" :> 5) @@ ("init2" :> 5) @@
    ("720x480" :> 7) @@ ("avc1" :> 4) @@ ("mp4a" :> 4) @@ ("abc" :> 3) @@
    ("a.ts" :> 4) @@ ("b.ts" :> 4) @@ ("low.m3u8" :> 8) @@
    ("iframe.m3u8" :> 11) @@ (LongRun :> MaxScanTokenSize)

AtomLen(a) == IF a \in DOMAIN WordLen THEN WordLen[a] ELSE 1

RECURSIVE ByteLen(_)
ByteLen(s) == IF s = <<>> THEN 0 ELSE AtomLen(Head(s)) + ByteLen(Tail(s))

(***************************************************************************)
(* Go's strings package, over atom sequences.                              *)
(***************************************************************************)
HasPrefix(s, prefix) ==
    /\ Len(s) >= Len(prefix)
    /\ SubSeq(s, 1, Len(prefix)) = prefix

TrimPrefix(s, prefix) ==
    IF HasPrefix(s, prefix) THEN SubSeq(s, Len(prefix) + 1, Len(s)) ELSE s

\* strings.Index: 0-based index of the first occurrence of substr, or -1.
Index(s, substr) ==
    LET hits == {i \in 0..(Len(s) - Len(substr)) :
                    SubSeq(s, i + 1, i + Len(substr)) = substr}
    IN  IF hits = {} THEN -1
        ELSE CHOOSE i \in hits : \A j \in hits : i <= j

Contains(s, substr) == Index(s, substr) # -1

RECURSIVE TrimLeft(_)
TrimLeft(s) ==
    IF s # <<>> /\ Head(s) \in Whitespace THEN TrimLeft(Tail(s)) ELSE s

RECURSIVE TrimRight(_)
TrimRight(s) ==
    IF s # <<>> /\ s[Len(s)] \in Whitespace
    THEN TrimRight(SubSeq(s, 1, Len(s) - 1))
    ELSE s

TrimSpace(s) == TrimRight(TrimLeft(s))

\* strings.Split(s, "\n"): always at least one element.
RECURSIVE SplitFrom(_, _, _)
SplitFrom(s, i, cur) ==
    IF i > Len(s) THEN <<cur>>
    ELSE IF s[i] = "\n" THEN <<cur>> \o SplitFrom(s, i + 1, <<>>)
    ELSE SplitFrom(s, i + 1, Append(cur, s[i]))

Split(s) == SplitFrom(s, 1, <<>>)

\* strconv.Atoi on a string of the model's alphabet: decimal digits only.
RECURSIVE DecimalValue(_, _)
DecimalValue(s, acc) ==
    IF s = <<>> THEN acc
    ELSE DecimalValue(Tail(s), 10 * acc + DigitVal[Head(s)])

Atoi(s) ==
    IF s # <<>> /\ \A i \in 1..Len(s) : s[i] \in Digits
    THEN [ok |-> TRUE, val |-> DecimalValue(s, 0)]
    ELSE [ok |-> FALSE, val |-> 0]

\* strconv.ParseFloat on a string of the model's alphabet (integer literals).
ParseFloat(s) == Atoi(s)

(***************************************************************************)
(* bufio.Scanner with the default ScanLines split function.                *)
(***************************************************************************)
\* ScanLines drops one trailing CR of a line.
dropCR(line) ==
    IF line # <<>> /\ line[Len(line)] = "\r"
    THEN SubSeq(line, 1, Len(line) - 1)
    ELSE line

\* The bytes of the next line of the unread input rest, without its "\n".
scanToken(rest) ==
    IF Index(rest, <<"\n">>) = -1 THEN rest
    ELSE SubSeq(rest, 1, Index(rest, <<"\n">>))

\* The unread input after that line.
scanAdvance(rest) ==
    IF Index(rest, <<"\n">>) = -1 THEN <<>>
    ELSE SubSeq(rest, Index(rest, <<"\n">>) + 2, Len(rest))

\* Scan() returns false at the end of the input and on a line that does not
\* fit the buffer (ErrTooLong), which the parser never looks at.
ScanOk(rest) ==
    /\ rest # <<>>
    /\ ByteLen(scanToken(rest)) < MaxScanTokenSize

\* scanner.Text() after a successful Scan().
ScanText(rest) == dropCR(scanToken(rest))

(***************************************************************************)
(* Parser.splitAttributes and ManifestRenderer.splitAttributes.            *)
(***************************************************************************)
\* The state of the scan: parts, the strings.Builder current, inQuotes.
splitStart == [parts |-> <<>>, current |-> <<>>, inQuotes |-> FALSE]

\* A scan step that also splits at a comma inside quotes.
splitCharIgnoringQuotes(st, char) ==
    IF char = ","
    THEN IF Len(st.current) > 0
         THEN [st EXCEPT !.parts = Append(@, st.current), !.current = <<>>]
         ELSE st
    ELSE [st EXCEPT !.current = Append(@, char)]

\* One iteration of the range loop of Parser.splitAttributes.
splitChar(st, char) ==
    CASE char = "\"" ->
            [st EXCEPT !.inQuotes = ~st.inQuotes, !.current = Append(@, char)]
      [] char = "," ->
            IF ~st.inQuotes
            THEN IF Len(st.current) > 0
                 THEN [st EXCEPT !.parts = Append(@, st.current),
                                 !.current = <<>>]
                 ELSE st
            ELSE [st EXCEPT !.current = Append(@, char)]
      [] OTHER -> [st EXCEPT !.current = Append(@, char)]

RECURSIVE splitLoop(_, _)
splitLoop(st, rest) ==
    IF rest = <<>> THEN st ELSE splitLoop(splitChar(st, Head(rest)), Tail(rest))

splitAttributes(attrStr) ==
    LET st == splitLoop(splitStart, attrStr)
    IN  IF Len(st.current) > 0 THEN Append(st.parts, st.current) ELSE st.parts

\* One iteration of the range loop of ManifestRenderer.splitAttributes.
rendererSplitChar(st, char) ==
    CASE char = "\"" ->
            [st EXCEPT !.inQuotes = ~st.inQuotes, !.current = Append(@, char)]
      [] char = "," ->
            IF ~st.inQuotes
            THEN IF Len(st.current) > 0
                 THEN [st EXCEPT !.parts = Append(@, TrimSpace(st.current)),
                                 !.current = <<>>]
                 ELSE st
            ELSE [st EXCEPT !.current = Append(@, char)]
      [] OTHER -> [st EXCEPT !.current = Append(@, char)]

RECURSIVE rendererSplitLoop(_, _)
rendererSplitLoop(st, rest) ==
    IF rest = <<>> THEN st
    ELSE rendererSplitLoop(rendererSplitChar(st, Head(rest)), Tail(rest))

rendererSplitAttributes(attrStr) ==
    LET st == rendererSplitLoop(splitStart, attrStr)
    IN  IF Len(st.current) > 0
        THEN Append(st.parts, TrimSpace(st.current))
        ELSE st.parts

(***************************************************************************)
(* Parser.parseAttributes: a map from key to value.                        *)
(***************************************************************************)
\* A map write that keeps the value a key already has.
MapPutFirst(m, key, value) ==
    [k \in DOMAIN m \cup {key} |->
        IF k \in DOMAIN m THEN m[k] ELSE value]

\* attributes[key] = value on a Go map: the last write of a key wins.
MapPut(m, key, value) ==
    [k \in DOMAIN m \cup {key} |-> IF k = key THEN value ELSE m[k]]

\* attributes[key] read on a Go map: the zero value "" when absent.
MapGet(m, key) == IF key \in DOMAIN m THEN m[key] ELSE <<>>

EmptyMap == [k \in {} |-> <<>>]

\* A loop body that strips a quote at either end of the value on its own.
parsePartStripAny(attributes, part) ==
    LET equalIdx == Index(part, <<"=">>)
    IN  IF equalIdx # -1
        THEN LET key == TrimSpace(SubSeq(part, 1, equalIdx))
                 value == TrimSpace(SubSeq(part, equalIdx + 2, Len(part)))
                 front == IF value # <<>> /\ value[1] = "\""
                          THEN Tail(value) ELSE value
                 unquoted == IF front # <<>> /\ front[Len(front)] = "\""
                             THEN SubSeq(front, 1, Len(front) - 1) ELSE front
             IN  MapPut(attributes, key, unquoted)
        ELSE attributes

\* The body of the range loop of parseAttributes for one part.
parsePart(attributes, part) ==
    LET equalIdx == Index(part, <<"=">>)
    IN  IF equalIdx # -1
        THEN LET key == TrimSpace(SubSeq(part, 1, equalIdx))
                 value == TrimSpace(SubSeq(part, equalIdx + 2, Len(part)))
                 unquoted ==
                     IF /\ Len(value) >= 2
                        /\ value[1] = "\""
                        /\ value[Len(value)] = "\""
                     THEN SubSeq(value, 2, Len(value) - 1)
                     ELSE value
             IN  MapPut(attributes, key, unquoted)
        ELSE attributes

RECURSIVE parseParts(_, _)
parseParts(attributes, parts) ==
    IF parts = <<>> THEN attributes
    ELSE parseParts(parsePart(attributes, Head(parts)), Tail(parts))

parseAttributes(attrStr) == parseParts(EmptyMap, splitAttributes(attrStr))

\* Parser.parseTag.
parseTag(line, lineNumber) ==
    LET colonIdx == Index(line, <<":">>)
    IN  IF colonIdx # -1
        THEN [Name |-> SubSeq(line, 1, colonIdx),
              Value |-> SubSeq(line, colonIdx + 2, Len(line)),
              Attributes |-> parseAttributes(SubSeq(line, colonIdx + 2, Len(line))),
              LineNumber |-> lineNumber]
        ELSE [Name |-> line,
              Value |-> <<>>,
              Attributes |-> EmptyMap,
              LineNumber |-> lineNumber]

(***************************************************************************)
(* Go's path and net/url packages.  A URL or a path is a sequence of atoms *)
(* too: "/" and ":" are atoms, and what stands between two slashes (".",    *)
(* "..", a name) is one atom.  The inputs hold no query, no fragment, no   *)
(* user info, no escape and no scheme other than http and https.           *)
(***************************************************************************)
Schemes == {"http", "https"}

\* The names that hold a colon after a character no scheme can start with.
ColonNames == {"10:30.ts"}

sHTTP == <<"http", ":", "/", "/">>
sHTTPS == <<"https", ":", "/", "/">>

\* strings.Split(s, "/") and strings.Cut(s, "/") repeated: the elements.
RECURSIVE ElementsFrom(_, _, _)
ElementsFrom(s, i, cur) ==
    IF i > Len(s) THEN <<cur>>
    ELSE IF s[i] = "/" THEN <<cur>> \o ElementsFrom(s, i + 1, <<>>)
    ELSE ElementsFrom(s, i + 1, Append(cur, s[i]))

Elements(s) == ElementsFrom(s, 1, <<>>)

\* strings.LastIndex(s, "/"): 0-based, or -1.
LastIndexSlash(s) ==
    LET hits == {i \in 0..(Len(s) - 1) : s[i + 1] = "/"}
    IN  IF hits = {} THEN -1
        ELSE CHOOSE i \in hits : \A j \in hits : j <= i

RECURSIVE JoinSlash(_)
JoinSlash(elems) ==
    IF elems = <<>> THEN <<>>
    ELSE IF Len(elems) = 1 THEN elems[1]
    ELSE elems[1] \o <<"/">> \o JoinSlash(Tail(elems))

\* The loop of path.Clean: out holds the elements kept so far.
RECURSIVE cleanLoop(_, _, _)
cleanLoop(out, elems, rooted) ==
    IF elems = <<>> THEN out
    ELSE LET e == Head(elems)
             kept ==
                 CASE e = <<>> \/ e = <<".">> -> out
                   [] e = <<"..">> ->
                        IF out # <<>> /\ out[Len(out)] # <<"..">>
                        THEN SubSeq(out, 1, Len(out) - 1)
                        ELSE IF rooted THEN out
                        ELSE Append(out, e)
                   [] OTHER -> Append(out, e)
         IN  cleanLoop(kept, Tail(elems), rooted)

\* path.Clean.
pathClean(p) ==
    IF p = <<>> THEN <<".">>
    ELSE LET rooted == p[1] = "/"
             out == cleanLoop(<<>>, Elements(p), rooted)
         IN  IF out = <<>>
             THEN IF rooted THEN <<"/">> ELSE <<".">>
             ELSE (IF rooted THEN <<"/">> ELSE <<>>) \o JoinSlash(out)

\* path.Join of two elements.
pathJoin(a, b) ==
    IF a = <<>> /\ b = <<>> THEN <<>>
    ELSE IF a = <<>> THEN pathClean(b)
    ELSE pathClean(a \o <<"/">> \o b)

\* path.Dir.
pathDir(p) == pathClean(SubSeq(p, 1, LastIndexSlash(p) + 1))

\* url.Parse: the URL, or ok = FALSE for "first path segment in URL cannot
\* contain colon".
urlParse(rawURL) ==
    LET hasScheme ==
            Len(rawURL) >= 2 /\ rawURL[1] \in Schemes /\ rawURL[2] = ":"
        rest == IF hasScheme THEN SubSeq(rawURL, 3, Len(rawURL)) ELSE rawURL
        colonFirst ==
            /\ ~hasScheme
            /\ ~HasPrefix(rest, <<"/">>)
            /\ \E i \in 1..Len(Elements(rest)[1]) :
                  Elements(rest)[1][i] \in ColonNames
        authority ==
            /\ hasScheme \/ ~HasPrefix(rest, <<"/", "/", "/">>)
            /\ HasPrefix(rest, <<"/", "/">>)
        after == SubSeq(rest, 3, Len(rest))
        i == Index(after, <<"/">>)
    IN  IF colonFirst
        THEN [ok |-> FALSE, Scheme |-> <<>>, Host |-> <<>>, Path |-> <<>>]
        ELSE [ok |-> TRUE,
              Scheme |-> IF hasScheme THEN <<rawURL[1]>> ELSE <<>>,
              Host |-> IF ~authority THEN <<>>
                       ELSE IF i = -1 THEN after
                       ELSE SubSeq(after, 1, i),
              Path |-> IF ~authority THEN rest
                       ELSE IF i = -1 THEN <<>>
                       ELSE SubSeq(after, i + 1, Len(after))]

\* URL.String.
urlString(u) ==
    LET scheme == IF u.Scheme # <<>> THEN u.Scheme \o <<":">> ELSE <<>>
        host == IF u.Scheme # <<>> \/ u.Host # <<>>
                THEN (IF u.Host # <<>> \/ u.Path # <<>>
                      THEN <<"/", "/">> ELSE <<>>) \o u.Host
                ELSE <<>>
        slash == IF u.Path # <<>> /\ u.Path[1] # "/" /\ u.Host # <<>>
                 THEN <<"/">> ELSE <<>>
        dot == IF /\ scheme \o host \o slash = <<>>
                  /\ \E i \in 1..Len(Elements(u.Path)[1]) :
                        Elements(u.Path)[1][i] \in ColonNames
               THEN <<".", "/">> ELSE <<>>
    IN  scheme \o host \o slash \o dot \o u.Path

\* One iteration of the loop of resolvePath: dst is the strings.Builder.
resolveStep(st, elem) ==
    CASE elem = <<".">> -> [st EXCEPT !.first = FALSE]
      [] elem = <<"..">> ->
            LET str == Tail(st.dst)
                index == LastIndexSlash(str)
            IN  IF index = -1
                THEN [dst |-> <<"/">>, first |-> TRUE]
                ELSE [dst |-> <<"/">> \o SubSeq(str, 1, index),
                      first |-> st.first]
      [] OTHER ->
            [dst |-> st.dst \o (IF st.first THEN <<>> ELSE <<"/">>) \o elem,
             first |-> FALSE]

RECURSIVE resolveLoop(_, _)
resolveLoop(st, elems) ==
    IF elems = <<>> THEN st
    ELSE resolveLoop(resolveStep(st, Head(elems)), Tail(elems))

\* net/url's resolvePath.
resolvePath(base, ref) ==
    LET full == IF ref = <<>> THEN base
                ELSE IF ref[1] # "/"
                THEN SubSeq(base, 1, LastIndexSlash(base) + 1) \o ref
                ELSE ref
        elems == Elements(full)
        last == elems[Len(elems)]
        st == resolveLoop([dst |-> <<"/">>, first |-> TRUE], elems)
        r == IF last = <<".">> \/ last = <<"..">>
             THEN Append(st.dst, "/") ELSE st.dst
    IN  IF full = <<>> THEN <<>>
        ELSE IF Len(r) > 1 /\ r[2] = "/" THEN Tail(r)
        ELSE r

\* URL.ResolveReference.
ResolveReference(u, ref) ==
    IF ref.Scheme # <<>> \/ ref.Host # <<>>
    THEN [ok |-> TRUE,
          Scheme |-> IF ref.Scheme = <<>> THEN u.Scheme ELSE ref.Scheme,
          Host |-> ref.Host,
          Path |-> resolvePath(ref.Path, <<>>)]
    ELSE [ok |-> TRUE,
          Scheme |-> u.Scheme,
          Host |-> u.Host,
          Path |-> resolvePath(u.Path, ref.Path)]

\* Parser.getBaseURL.
getBaseURL(fullURL) ==
    LET parsedURL == urlParse(fullURL)
    IN  IF parsedURL.ok
        THEN urlString([parsedURL EXCEPT !.Path = pathDir(parsedURL.Path)])
        ELSE <<>>

\* A resolver without the shortcut for references that are absolute already.
ResolveURLAlwaysResolving(base, relativeURL) ==
    IF /\ HasPrefix(base, sHTTP) \/ HasPrefix(base, sHTTPS)
       /\ urlParse(base).ok
       /\ urlParse(relativeURL).ok
    THEN urlString(ResolveReference(urlParse(base), urlParse(relativeURL)))
    ELSE pathJoin(base, relativeURL)

\* Parser.ResolveURL, on the parser's baseURL.
ResolveURL(base, relativeURL) ==
    IF HasPrefix(relativeURL, sHTTP) \/ HasPrefix(relativeURL, sHTTPS)
    THEN relativeURL
    ELSE IF /\ HasPrefix(base, sHTTP) \/ HasPrefix(base, sHTTPS)
            /\ urlParse(base).ok
            /\ urlParse(relativeURL).ok
    THEN urlString(ResolveReference(urlParse(base), urlParse(relativeURL)))
    ELSE pathJoin(base, relativeURL)

(***************************************************************************)
(* The string literals of parser.go.                                       *)
(***************************************************************************)
sHash == <<"#">>
sExt == <<"#", "EXT">>
sStreamInf == <<"#", "EXT", "-X-STREAM-INF">>
sIFrameStreamInf == <<"#", "EXT", "-X-I-FRAME-STREAM-INF">>
pVersion == <<"#", "EXT", "-X-VERSION", ":">>
pTargetDuration == <<"#", "EXT", "-X-TARGETDURATION", ":">>
pMediaSequence == <<"#", "EXT", "-X-MEDIA-SEQUENCE", ":">>
pStreamInf == <<"#", "EXT", "-X-STREAM-INF", ":">>
pExtinf == <<"#", "EXT", "INF", ":">>
pByteRange == <<"#", "EXT", "-X-BYTERANGE", ":">>
pKey == <<"#", "EXT", "-X-KEY", ":">>
pMap == <<"#", "EXT", "-X-MAP", ":">>

(***************************************************************************)
(* ManifestRenderer.GetNavigableItems and its helpers.  Indices count      *)
(* atoms; the inputs spell an occurrence of URI= as the atoms "URI", "=".  *)
(***************************************************************************)
pIFrameStreamInf == <<"#", "EXT", "-X-I-FRAME-STREAM-INF", ":">>
pMedia == <<"#", "EXT", "-X-MEDIA", ":">>
sURI == <<"URI">>

extractAttributeValue(line, attributeName) ==
    LET attrPrefix == attributeName \o <<"=">>
        attrIndex == Index(line, attrPrefix)
        valueStart == attrIndex + Len(attrPrefix)
        \* line[valueStart:] and line[valueStart+1:]
        value == SubSeq(line, valueStart + 1, Len(line))
        afterQuote == SubSeq(line, valueStart + 2, Len(line))
    IN  IF attrIndex = -1 THEN <<>>
        ELSE IF valueStart >= Len(line) THEN <<>>
        ELSE IF line[valueStart + 1] = "\""
        THEN LET valueEnd == Index(afterQuote, <<"\"">>)
             IN  IF valueEnd = -1 THEN <<>>
                 ELSE SubSeq(afterQuote, 1, valueEnd)
        ELSE LET valueEnd == Index(value, <<",">>)
             IN  IF valueEnd = -1 THEN value
                 ELSE SubSeq(value, 1, valueEnd)

\* An extractor that reads the URI of every tag that carries one.
extractURIFromAnyTag(line) == extractAttributeValue(line, sURI)

extractURIFromTag(line) ==
    IF HasPrefix(line, pIFrameStreamInf)
    THEN extractAttributeValue(line, sURI)
    ELSE IF HasPrefix(line, pMedia)
    THEN extractAttributeValue(line, sURI)
    ELSE <<>>

\* The loop of GetNavigableItems from line i on; lineNum is i.
RECURSIVE navigableLoop(_, _, _)
navigableLoop(items, lines, i) ==
    IF i > Len(lines) THEN items
    ELSE LET line == TrimSpace(lines[i])
             uri == extractURIFromTag(line)
         IN  IF line = <<>> THEN navigableLoop(items, lines, i + 1)
             ELSE IF ~HasPrefix(line, <<"#">>)
             THEN navigableLoop(MapPut(items, i, line), lines, i + 1)
             ELSE IF uri # <<>>
             THEN navigableLoop(MapPut(items, i, uri), lines, i + 1)
             ELSE navigableLoop(items, lines, i + 1)

\* m is mr.manifest: <<>> is nil, <<x>> points to the Manifest x.
GetNavigableItems(m) ==
    IF m = <<>> THEN EmptyMap
    ELSE navigableLoop(EmptyMap, Split(m[1].Content), 1)

(***************************************************************************)
(* State.                                                                  *)
(***************************************************************************)
VARIABLES
    content,         \* the text handed to parseContent
    pc,              \* "start", "master", "media" (inside the scan loop), "done"
    manifest,        \* the Manifest under construction
    scanner,         \* the input the bufio.Scanner has not read yet
    lineNumber,      \* local of parseMasterManifest / parseMediaManifest
    variants,        \* local of parseMasterManifest
    currentVariant,  \* *Variant: <<>> is nil, <<v>> points to v
    segments,        \* local of parseMediaManifest
    sequence,        \* local of parseMediaManifest
    currentSegment,  \* *Segment: <<>> is nil, <<s>> points to s
    currentKey,      \* *Key: 0 is nil, else an index of keyHeap
    currentMap,      \* *Map: 0 is nil, else an index of mapHeap
    keyHeap,         \* the Key objects allocated so far
    mapHeap,         \* the Map objects allocated so far
    attrStr,         \* the argument of the tokenizers
    tokenized,       \* what the tokenizers returned: "no", "parser", "both"
    parts,           \* result of Parser.splitAttributes
    rendererParts,   \* result of ManifestRenderer.splitAttributes
    attrs,           \* result of Parser.parseAttributes
    baseURL,         \* Parser.baseURL
    sourceURL,       \* the argument sourceURL of parseContent
    source,          \* what the file system or the server answers to a call
    err,             \* the error ParseFromURL / ParseFromFile returned, or ""
    returned,        \* the *Manifest they returned: <<>> is nil
    relativeURL,     \* the argument of ResolveURL
    resolved,        \* what ResolveURL returned, call after call
    navigableItems,  \* <<>>, or a call of GetNavigableItems: mr.manifest and
                     \* the map returned
    original,        \* a Manifest kept to parse its Content again, or <<>>
    opened,          \* <<>>, or what Enter on a line of a media view called
    parsers,         \* the Parser objects of the application: parsers[p] is
                     \* the baseURL of parser p, parsers[1] that of App.parser
    currentView,     \* App.currentView: <<>> is nil, <<v>> a view
    navStack,        \* App.navStack
    tasks,           \* the goroutines started and not yet run
    queue,           \* the functions handed to QueueUpdateDraw, in order
    running,         \* "init", "running" (in Application.Run), "stopped"
    loading,         \* the page "loading" is visible and holds the focus
    fetches,         \* the number of fetches started in goroutines so far
    keyPressed,      \* the key the last step handled, "" when it handled none
    modal,           \* App.loadingModal, App.loadingTicker, the goroutines of
                     \* the loading animation and what the status bar shows
    mv               \* a MasterView / MediaView with its text view

vars ==
    <<content, pc, manifest, scanner, lineNumber, variants, currentVariant,
      segments, sequence, currentSegment, currentKey, currentMap, keyHeap, mapHeap,
      attrStr, tokenized, parts, rendererParts, attrs,
      baseURL, sourceURL, source, err, returned, relativeURL, resolved,
      navigableItems, original, opened, parsers, currentView, navStack, tasks,
      queue, running, loading, fetches, keyPressed, modal, mv>>

parserVars ==
    <<content, pc, manifest, scanner, lineNumber, variants, currentVariant,
      segments, sequence, currentSegment, currentKey, currentMap, keyHeap, mapHeap>>

tokenizerVars == <<attrStr, tokenized, parts, rendererParts, attrs>>

sourceVars == <<baseURL, sourceURL, source, err, returned>>

resolveVars == <<relativeURL, resolved>>

clientVars == <<navigableItems, original, opened>>

appVars ==
    <<parsers, currentView, navStack, tasks, queue, running, loading, fetches,
      keyPressed, modal>>

tuiVars == <<appVars, mv>>

(***************************************************************************)
(* Parser.getLineType, Parser.isMasterManifest, Parser.parseContent.       *)
(***************************************************************************)
\* A classifier that tests for "#" before it tests for "#EXT".
getLineTypeHashFirst(line) ==
    IF line = <<>> THEN "empty"
    ELSE IF HasPrefix(line, sHash) THEN "comment"
    ELSE IF HasPrefix(line, sExt) THEN "tag"
    ELSE "uri"

getLineType(line) ==
    IF line = <<>> THEN "empty"
    ELSE IF HasPrefix(line, sExt) THEN "tag"
    ELSE IF HasPrefix(line, sHash) THEN "comment"
    ELSE "uri"

\* A classifier that looks for the tags at the start of a line only.
isMasterManifestLineAnchored(text) ==
    \E i \in 1..Len(Split(text)) :
        \/ HasPrefix(TrimSpace(Split(text)[i]), sStreamInf)
        \/ HasPrefix(TrimSpace(Split(text)[i]), sIFrameStreamInf)

\* A classifier that forgets the I-frame tag.
isMasterManifestStreamInfOnly(text) == Contains(text, sStreamInf)

isMasterManifest(text) ==
    Contains(text, sStreamInf) \/ Contains(text, sIFrameStreamInf)

\* The zero value of Manifest.
ZeroManifest ==
    [URL |-> <<>>, Type |-> "", Content |-> <<>>, Lines |-> <<>>,
     Variants |-> <<>>, Segments |-> <<>>, Tags |-> <<>>, BaseURL |-> <<>>,
     TargetDuration |-> 0, Version |-> 0, Sequence |-> 0]

\* A manifest that keeps its text without the blanks around it.
newManifestTrimmed(text, url, base) ==
    [ZeroManifest EXCEPT
        !.URL = url, !.Content = TrimSpace(text), !.BaseURL = base]

\* manifest := &Manifest{URL: sourceURL, Content: content, BaseURL: p.baseURL,
\* Tags: make([]Tag, 0)}.
newManifest(text, url, base) ==
    [ZeroManifest EXCEPT !.URL = url, !.Content = text, !.BaseURL = base]

\* manifest.Lines as the first loop of parseContent fills it.
classifyLines(text) ==
    LET lines == Split(text)
    IN  [i \in 1..Len(lines) |->
            [Number |-> i,
             Content |-> TrimSpace(lines[i]),
             Type |-> getLineType(TrimSpace(lines[i]))]]

\* parseContent up to the call of parseMasterManifest / parseMediaManifest,
\* and the declarations of the locals of the one it calls.
parseContent ==
    /\ pc = "start"
    /\ manifest' = [newManifest(content, sourceURL, baseURL) EXCEPT
                        !.Lines = classifyLines(content),
                        !.Type = IF isMasterManifest(content)
                                 THEN "master" ELSE "media"]
    /\ pc' = IF isMasterManifest(content) THEN "master" ELSE "media"
    /\ scanner' = content
    /\ lineNumber' = 0
    /\ variants' = <<>>
    /\ currentVariant' = <<>>
    /\ segments' = <<>>
    /\ sequence' = 0
    /\ currentSegment' = <<>>
    /\ currentKey' = 0
    /\ currentMap' = 0
    /\ UNCHANGED <<content, keyHeap, mapHeap, tokenizerVars, sourceVars,
                   resolveVars, clientVars, tuiVars>>

\* line := strings.TrimSpace(scanner.Text()).
scanLine == TrimSpace(ScanText(scanner))

\* "Parse all tags": the tail of both loop bodies.
tagsAfter(tags, line, n) ==
    IF HasPrefix(line, sExt) THEN Append(tags, parseTag(line, n)) ELSE tags

\* line == "" || HasPrefix(line, "#") && !HasPrefix(line, "#EXT"): continue.
skipped(line) ==
    line = <<>> \/ (HasPrefix(line, sHash) /\ ~HasPrefix(line, sExt))

(***************************************************************************)
(* Parser.parseMasterManifest: one iteration of the scan loop, and the     *)
(* end of the loop.                                                        *)
(***************************************************************************)
\* The Variant a #EXT-X-STREAM-INF: line starts.
newVariant(line) ==
    LET attributes == parseAttributes(TrimPrefix(line, pStreamInf))
        bw == Atoi(MapGet(attributes, <<"BANDWIDTH">>))
    IN  [URI |-> <<>>,
         Bandwidth |-> IF <<"BANDWIDTH">> \in DOMAIN attributes /\ bw.ok
                       THEN bw.val ELSE 0,
         Resolution |-> MapGet(attributes, <<"RESOLUTION">>),
         Codecs |-> MapGet(attributes, <<"CODECS">>),
         Attributes |-> attributes]

parseMasterManifestStep ==
    /\ pc = "master"
    /\ ScanOk(scanner)
    /\ scanner' = scanAdvance(scanner)
    /\ lineNumber' = lineNumber + 1
    /\ LET n == lineNumber + 1
           line == scanLine
           version == Atoi(TrimPrefix(line, pVersion))
       IN  IF skipped(line)
           THEN UNCHANGED <<manifest, variants, currentVariant>>
           ELSE /\ manifest' =
                     [manifest EXCEPT
                         !.Version = IF HasPrefix(line, pVersion) /\ version.ok
                                     THEN version.val ELSE @,
                         !.Tags = tagsAfter(@, line, n)]
                /\ IF HasPrefix(line, pVersion)
                   THEN UNCHANGED <<variants, currentVariant>>
                   ELSE IF HasPrefix(line, pStreamInf)
                   THEN /\ currentVariant' = <<newVariant(line)>>
                        /\ UNCHANGED variants
                   ELSE IF currentVariant # <<>> /\ ~HasPrefix(line, sHash)
                   THEN /\ variants' =
                            Append(variants,
                                   [currentVariant[1] EXCEPT !.URI = line])
                        /\ currentVariant' = <<>>
                   ELSE UNCHANGED <<variants, currentVariant>>
    /\ UNCHANGED <<content, pc, segments, sequence, currentSegment, currentKey,
                   currentMap, keyHeap, mapHeap, tokenizerVars, sourceVars,
                   resolveVars, clientVars, tuiVars>>

\* scanner.Scan() returned false: manifest.Variants = variants; return nil,
\* and parseContent returns manifest, nil.
\* parseMasterManifest appending the pending variant at the end of input.
parseMasterManifestEndFlushing ==
    /\ pc = "master"
    /\ ~ScanOk(scanner)
    /\ manifest' = [manifest EXCEPT !.Variants = variants \o currentVariant]
    /\ returned' = <<manifest'>>
    /\ pc' = "done"
    /\ UNCHANGED <<content, scanner, lineNumber, variants, currentVariant,
                   segments, sequence, currentSegment, currentKey, currentMap,
                   keyHeap, mapHeap, tokenizerVars, baseURL, sourceURL, source,
                   err, resolveVars, clientVars, tuiVars>>

parseMasterManifestEnd ==
    /\ pc = "master"
    /\ ~ScanOk(scanner)
    /\ manifest' = [manifest EXCEPT !.Variants = variants]
    /\ returned' = <<manifest'>>
    /\ pc' = "done"
    /\ UNCHANGED <<content, scanner, lineNumber, variants, currentVariant,
                   segments, sequence, currentSegment, currentKey, currentMap,
                   keyHeap, mapHeap, tokenizerVars, baseURL, sourceURL, source,
                   err, resolveVars, clientVars, tuiVars>>

(***************************************************************************)
(* Parser.parseMediaManifest: one iteration of the scan loop, and the end  *)
(* of the loop.  Key and Map objects live in keyHeap and mapHeap; a        *)
(* Segment holds pointers (indices) to them, as the Go struct does.        *)
(***************************************************************************)
\* Storing the new object into the one the current pointer refers to.
storeInPlace(heap, current, object) ==
    IF current = 0
    THEN [heap |-> Append(heap, object), ptr |-> Len(heap) + 1]
    ELSE [heap |-> [heap EXCEPT ![current] = object], ptr |-> current]

\* An assignment that takes METHOD=NONE as "no key from here on": nil.
allocateUnlessNone(heap, current, object) ==
    IF "Method" \in DOMAIN object /\ object.Method = <<"NONE">>
    THEN [heap |-> heap, ptr |-> 0]
    ELSE [heap |-> Append(heap, object), ptr |-> Len(heap) + 1]

\* currentKey = &Key{...} and currentMap = &Map{...}: a fresh object.
allocate(heap, current, object) ==
    [heap |-> Append(heap, object), ptr |-> Len(heap) + 1]

\* The Key a #EXT-X-KEY: line describes.
keyOf(line) ==
    LET attributes == parseAttributes(TrimPrefix(line, pKey))
    IN  [Method |-> MapGet(attributes, <<"METHOD">>),
         URI |-> MapGet(attributes, <<"URI">>),
         IV |-> MapGet(attributes, <<"IV">>),
         KeyFormat |-> MapGet(attributes, <<"KEYFORMAT">>)]

\* The Map a #EXT-X-MAP: line describes.
mapOf(line) ==
    LET attributes == parseAttributes(TrimPrefix(line, pMap))
    IN  [URI |-> MapGet(attributes, <<"URI">>),
         ByteRange |-> MapGet(attributes, <<"BYTERANGE">>)]

\* The duration text of a #EXTINF: line: what precedes the first comma.
durationStr(line) ==
    LET rest == TrimPrefix(line, pExtinf)
        commaIdx == Index(rest, <<",">>)
    IN  IF commaIdx # -1 THEN SubSeq(rest, 1, commaIdx) ELSE rest

\* A pending segment that starts with the byte range of the segment
\* committed before it.
newSegmentCarryingRange(duration, seq, key, map) ==
    [URI |-> <<>>, Duration |-> duration, Sequence |-> seq,
     ByteRange |-> IF segments = <<>> THEN <<>>
                   ELSE segments[Len(segments)].ByteRange,
     Key |-> key, Map |-> map]

\* currentSegment = &Segment{Duration: duration, Sequence: sequence,
\* Key: currentKey, Map: currentMap}: URI and ByteRange are "".
newSegment(duration, seq, key, map) ==
    [URI |-> <<>>, Duration |-> duration, Sequence |-> seq,
     ByteRange |-> <<>>, Key |-> key, Map |-> map]

parseMediaManifestStep ==
    /\ pc = "media"
    /\ ScanOk(scanner)
    /\ scanner' = scanAdvance(scanner)
    /\ lineNumber' = lineNumber + 1
    /\ LET n == lineNumber + 1
           line == scanLine
           version == Atoi(TrimPrefix(line, pVersion))
           target == Atoi(TrimPrefix(line, pTargetDuration))
           seq == Atoi(TrimPrefix(line, pMediaSequence))
           duration == ParseFloat(durationStr(line))
           key == allocate(keyHeap, currentKey, keyOf(line))
           map == allocate(mapHeap, currentMap, mapOf(line))
       IN  IF skipped(line)
           THEN UNCHANGED <<manifest, segments, sequence, currentSegment,
                            currentKey, currentMap, keyHeap, mapHeap>>
           ELSE IF HasPrefix(line, pVersion)
           THEN /\ manifest' =
                     [manifest EXCEPT
                         !.Version = IF version.ok THEN version.val ELSE @,
                         !.Tags = tagsAfter(@, line, n)]
                /\ UNCHANGED <<segments, sequence, currentSegment, currentKey,
                               currentMap, keyHeap, mapHeap>>
           ELSE IF HasPrefix(line, pTargetDuration)
           THEN /\ manifest' =
                     [manifest EXCEPT
                         !.TargetDuration = IF target.ok THEN target.val ELSE @,
                         !.Tags = tagsAfter(@, line, n)]
                /\ UNCHANGED <<segments, sequence, currentSegment, currentKey,
                               currentMap, keyHeap, mapHeap>>
           ELSE IF HasPrefix(line, pMediaSequence)
           THEN /\ manifest' =
                     [manifest EXCEPT
                         !.Sequence = IF seq.ok THEN seq.val ELSE @,
                         !.Tags = tagsAfter(@, line, n)]
                /\ sequence' = IF seq.ok THEN seq.val ELSE sequence
                /\ UNCHANGED <<segments, currentSegment, currentKey,
                               currentMap, keyHeap, mapHeap>>
           ELSE IF HasPrefix(line, pExtinf)
           THEN /\ manifest' = [manifest EXCEPT !.Tags = tagsAfter(@, line, n)]
                /\ IF duration.ok
                   THEN /\ currentSegment' =
                            <<newSegment(duration.val, sequence, currentKey,
                                         currentMap)>>
                        /\ sequence' = sequence + 1
                   ELSE UNCHANGED <<currentSegment, sequence>>
                /\ UNCHANGED <<segments, currentKey, currentMap, keyHeap,
                               mapHeap>>
           ELSE IF HasPrefix(line, pByteRange)
           THEN /\ manifest' = [manifest EXCEPT !.Tags = tagsAfter(@, line, n)]
                /\ currentSegment' =
                     IF currentSegment # <<>>
                     THEN <<[currentSegment[1] EXCEPT
                                !.ByteRange = TrimPrefix(line, pByteRange)]>>
                     ELSE currentSegment
                /\ UNCHANGED <<segments, sequence, currentKey, currentMap,
                               keyHeap, mapHeap>>
           ELSE IF HasPrefix(line, pKey)
           THEN /\ manifest' = [manifest EXCEPT !.Tags = tagsAfter(@, line, n)]
                /\ keyHeap' = key.heap
                /\ currentKey' = key.ptr
                /\ UNCHANGED <<segments, sequence, currentSegment, currentMap,
                               mapHeap>>
           ELSE IF HasPrefix(line, pMap)
           THEN /\ manifest' = [manifest EXCEPT !.Tags = tagsAfter(@, line, n)]
                /\ mapHeap' = map.heap
                /\ currentMap' = map.ptr
                /\ UNCHANGED <<segments, sequence, currentSegment, currentKey,
                               keyHeap>>
           ELSE IF currentSegment # <<>> /\ ~HasPrefix(line, sHash)
           THEN /\ manifest' = [manifest EXCEPT !.Tags = tagsAfter(@, line, n)]
                /\ segments' =
                     Append(segments, [currentSegment[1] EXCEPT !.URI = line])
                /\ currentSegment' = <<>>
                /\ UNCHANGED <<sequence, currentKey, currentMap, keyHeap,
                               mapHeap>>
           ELSE /\ manifest' = [manifest EXCEPT !.Tags = tagsAfter(@, line, n)]
                /\ UNCHANGED <<segments, sequence, currentSegment, currentKey,
                               currentMap, keyHeap, mapHeap>>
    /\ UNCHANGED <<content, pc, variants, currentVariant, tokenizerVars,
                   sourceVars, resolveVars, clientVars, tuiVars>>

\* scanner.Scan() returned false: manifest.Segments = segments; return nil,
\* and parseContent returns manifest, nil.
parseMediaManifestEnd ==
    /\ pc = "media"
    /\ ~ScanOk(scanner)
    /\ manifest' = [manifest EXCEPT !.Segments = segments]
    /\ returned' = <<manifest'>>
    /\ pc' = "done"
    /\ UNCHANGED <<content, scanner, lineNumber, variants, currentVariant,
                   segments, sequence, currentSegment, currentKey, currentMap,
                   keyHeap, mapHeap, tokenizerVars, baseURL, sourceURL, source,
                   err, resolveVars, clientVars, tuiVars>>

(***************************************************************************)
(* The tokenizers applied to an attribute string.                          *)
(***************************************************************************)
callSplitAttributes ==
    /\ tokenized = "no"
    /\ parts' = splitAttributes(attrStr)
    /\ tokenized' = "parser"
    /\ UNCHANGED <<attrStr, rendererParts, attrs, parserVars, sourceVars,
                   resolveVars, clientVars, tuiVars>>

callRendererSplitAttributes ==
    /\ tokenized = "parser"
    /\ rendererParts' = rendererSplitAttributes(attrStr)
    /\ tokenized' = "both"
    /\ UNCHANGED <<attrStr, parts, attrs, parserVars, sourceVars,
                   resolveVars, clientVars, tuiVars>>

\* attrs := parser.parseAttributes(attrStr), which tokenizes attrStr first.
callParseAttributes ==
    /\ tokenized = "no"
    /\ parts' = splitAttributes(attrStr)
    /\ attrs' = parseAttributes(attrStr)
    /\ tokenized' = "parsed"
    /\ UNCHANGED <<attrStr, rendererParts, parserVars, sourceVars,
                   resolveVars, clientVars, tuiVars>>

(***************************************************************************)
(* Inputs: the lines documents are made of.                                *)
(***************************************************************************)
lExtinf == <<"#", "EXT", "INF", ":", "4", ",">>
lSegmentURI == <<"a.ts">>
lMediaSequence5 == <<"#", "EXT", "-X-MEDIA-SEQUENCE", ":", "5">>
lKey1 ==
    <<"#", "EXT", "-X-KEY", ":", "METHOD", "=", "AES-128", ",",
      "URI", "=", "\"", "k1", "\"">>
lKeyNone == <<"#", "EXT", "-X-KEY", ":", "METHOD", "=", "NONE">>
lMap1 == <<"#", "EXT", "-X-MAP", ":", "URI", "=", "\"", "init1", "\"">>
lStreamInf ==
    <<"#", "EXT", "-X-STREAM-INF", ":", "BANDWIDTH", "=", "1", "2", ",",
      "RESOLUTION", "=", "720x480", ",",
      "CODECS", "=", "\"", "avc1", ",", "mp4a", "\"">>
lStreamInfBadBandwidth ==
    <<"#", "EXT", "-X-STREAM-INF", ":", "BANDWIDTH", "=", "abc">>
lIFrameStreamInf ==
    <<"#", "EXT", "-X-I-FRAME-STREAM-INF", ":",
      "URI", "=", "\"", "iframe.m3u8", "\"">>
lVariantURI == <<"low.m3u8">>
\* A comment whose text holds the master tag: ##EXT-X-STREAM-INF
lCommentWithTag == <<"#", "#", "EXT", "-X-STREAM-INF">>
\* A comment of MaxScanTokenSize + 1 bytes.
lLongComment == <<"#", LongRun>>
\* A tag line with blanks around it and a CR before the line feed.
lVersionPadded == <<" ", "#", "EXT", "-X-VERSION", ":", "3", " ", "\r">>
lEmpty == <<>>
\* Malformed content: a duration and a number that do not parse, a quote
\* that is never closed, an attribute segment without "=".
lExtinfBad == <<"#", "EXT", "INF", ":", "abc", ",">>
lMediaSequenceBad == <<"#", "EXT", "-X-MEDIA-SEQUENCE", ":", "abc">>
lKeyUnmatchedQuote == <<"#", "EXT", "-X-KEY", ":", "URI", "=", "\"", "k1">>
lKeyNoEquals == <<"#", "EXT", "-X-KEY", ":", "METHOD">>

MediaLineSet == {lExtinf, lSegmentURI, lMediaSequence5, lKey1, lKeyNone, lMap1}

DocLineSet ==
    {lStreamInf, lStreamInfBadBandwidth, lIFrameStreamInf, lVariantURI,
     lCommentWithTag, lLongComment, lVersionPadded, lExtinf, lEmpty}

MalformedLineSet ==
    {lExtinf, lSegmentURI, lExtinfBad, lMediaSequenceBad, lKeyUnmatchedQuote,
     lKeyNoEquals, lLongComment}

\* Byte ranges.
lByteRange1 == <<"#", "EXT", "-X-BYTERANGE", ":", "100@0">>
lByteRange2 == <<"#", "EXT", "-X-BYTERANGE", ":", "200@100">>

ByteRangeLineSet == {lExtinf, lSegmentURI, lByteRange1, lByteRange2}

\* Longest document, in lines, of the byte-range specification.
MaxByteRangeLines == 6

\* Segments of one file and of another one.
lSegmentURIb == <<"b.ts">>

EnterLineSet == {lExtinf, lSegmentURI, lSegmentURIb, lByteRange1}

\* Longest document, in lines, of the media-view specification.
MaxEnterLines == 5

\* Numeric tags: values that parse, two of them for the version, and values
\* that do not.
lVersion3 == <<"#", "EXT", "-X-VERSION", ":", "3">>
lVersion7 == <<"#", "EXT", "-X-VERSION", ":", "7">>
lVersionBad == <<"#", "EXT", "-X-VERSION", ":", "abc">>
lTargetDuration6 == <<"#", "EXT", "-X-TARGETDURATION", ":", "6">>
lTargetDurationBad == <<"#", "EXT", "-X-TARGETDURATION", ":", "abc">>

NumberLineSet ==
    {lVersion3, lVersion7, lVersionBad, lTargetDuration6, lTargetDurationBad,
     lMediaSequence5, lMediaSequenceBad, lExtinf, lStreamInf, lLongComment}

\* Longest document, in lines, of the numeric-tag specification.
MaxNumberLines == 3

\* strings.Join(lines, "\n").
RECURSIVE JoinLines(_)
JoinLines(lines) ==
    IF Len(lines) = 1 THEN lines[1]
    ELSE lines[1] \o <<"\n">> \o JoinLines(Tail(lines))

\* Every document of 1..maxLines lines of lineSet.
Documents(lineSet, maxLines) ==
    {JoinLines(ls) : ls \in UNION {[1..n -> lineSet] : n \in 1..maxLines}}

\* The attribute strings: all short ones over a small alphabet, and the
\* example of TestSplitAttributes.
AttrAlphabet == {"A", "=", ",", "\"", " "}

lSplitExample ==
    <<"A", "=", "1", ",", "B", "=", "\"", "hello", ",", "world", "\"", ",",
      "C", "=", "3">>

AttrStrings ==
    UNION {[1..n -> AttrAlphabet] : n \in 0..MaxAttrLen} \cup {lSplitExample}

\* The attribute strings handed to parseAttributes: all short ones, a string
\* with a repeated key, a segment without "=" and a value that holds "=", and
\* the quoted example of TestParseAttributes.
lRepeatedKey ==
    <<"K", "=", "x", ",", "junk", ",", " ", "K", " ", "=", " ", "a", "=", "b">>

lCodecs == <<"CODECS", "=", "\"", "avc1", ",", "mp4a", "\"">>

PairStrings ==
    UNION {[1..n -> AttrAlphabet] : n \in 0..MaxPairsLen}
        \cup {lRepeatedKey, lCodecs}

\* The lines GetNavigableItems reads: tags with a URI attribute, quoted, bare,
\* empty or missing, a segment URI with blanks around it, and every short
\* attribute list of #EXT-X-MEDIA over a small alphabet.
lMediaAudio ==
    <<"#", "EXT", "-X-MEDIA", ":", "TYPE", "=", "AUDIO", ",",
      "URI", "=", "\"", "audio.m3u8", "\"">>
lMediaBareURI ==
    <<"#", "EXT", "-X-MEDIA", ":", "URI", "=", "subs.m3u8", ",",
      "TYPE", "=", "SUBTITLES">>
lMediaNoURI == <<"#", "EXT", "-X-MEDIA", ":", "TYPE", "=", "AUDIO">>
lMediaEmptyURI == <<"#", "EXT", "-X-MEDIA", ":", "URI", "=", "\"", "\"">>
\* A bare URI value with a quoted comma inside: URI=seg"1,2".ts,TYPE=AUDIO
lMediaQuotedComma ==
    <<"#", "EXT", "-X-MEDIA", ":", "URI", "=", "seg", "\"", "1", ",", "2",
      "\"", ".ts", ",", "TYPE", "=", "AUDIO">>
lSegmentURIPadded == <<" ", "a.ts", " ", "\r">>

NavLineSet ==
    {lIFrameStreamInf, lMediaAudio, lMediaBareURI, lMediaNoURI,
     lMediaEmptyURI, lMediaQuotedComma, lKey1, lMap1, lMediaSequence5, lSegmentURIPadded,
     lCommentWithTag, lEmpty, lStreamInf, lExtinf, lVariantURI}

MaxNavLines == 3

MaxNavAttrLen == 5

NavAlphabet == {"URI", "=", "\"", ",", "a"}

NavTagLines ==
    {pMedia \o str :
        str \in UNION {[1..n -> NavAlphabet] : n \in 0..MaxNavAttrLen}}

NavDocuments == Documents(NavLineSet, MaxNavLines) \cup NavTagLines

\* The lines of the documents that are parsed twice.
ReparseLineSet ==
    {lKey1, lKeyNone, lMap1, lExtinf, lSegmentURIPadded, lMediaSequence5,
     lStreamInf, lVariantURI, lIFrameStreamInf, lVersionPadded,
     lCommentWithTag, lEmpty}

MaxReparseLines == 3

(***************************************************************************)
(* Inputs of ParseFromURL, ParseFromFile and ResolveURL.                   *)
(***************************************************************************)
\* Longest reference, in path elements, handed to ResolveURL.
MaxRefElements == 3

uIndex == sHTTPS \o <<"example.com", "/", "video", "/", "index.m3u8">>
uRootIndex == sHTTP \o <<"example.com", "/", "index.m3u8">>
uDeepIndex == sHTTPS \o <<"example.com", "/", "a", "/", "b", "/", "index.m3u8">>

ManifestURLs == {uIndex, uRootIndex, uDeepIndex}

fAbsolute == <<"/", "local", "/", "path", "/", "index.m3u8">>
fRelative == <<"local", "/", "index.m3u8">>
fBare == <<"index.m3u8">>

FilePaths == {fAbsolute, fRelative, fBare}

\* The texts a source holds: a master and a media manifest.
dMaster == lStreamInf \o <<"\n">> \o lVariantURI
dMedia == lExtinf \o <<"\n">> \o lSegmentURI

SourceDocs == {dMaster, dMedia}

\* net/http's StatusOK.
StatusOK == 200

\* What a server answers: no answer (transport failure), or a status and a
\* body that can or cannot be read to its end.
Responses ==
    {[openErr |-> TRUE, StatusCode |-> 0, readErr |-> FALSE, body |-> <<>>]}
        \cup [openErr : {FALSE}, StatusCode : {206, 404},
              readErr : {FALSE}, body : {<<>>}]
        \cup [openErr : {FALSE}, StatusCode : {StatusOK},
              readErr : {TRUE}, body : {<<>>}]
        \cup [openErr : {FALSE}, StatusCode : {StatusOK},
              readErr : {FALSE}, body : SourceDocs]

\* What the file system answers: the file cannot be opened, or it can and
\* can or cannot be read to its end.
FileResponses ==
    {[openErr |-> TRUE, StatusCode |-> 0, readErr |-> FALSE, body |-> <<>>]}
        \cup [openErr : {FALSE}, StatusCode : {0},
              readErr : {TRUE}, body : {<<>>}]
        \cup [openErr : {FALSE}, StatusCode : {0},
              readErr : {FALSE}, body : SourceDocs]

\* The elements of a reference: dot, dot-dot, names, a name with a colon.
RefElements == {<<".">>, <<"..">>, <<"hd">>, <<"segment.ts">>, <<"10:30.ts">>}

\* References that start with http:// or https://.
uOther == sHTTPS \o <<"other.com", "/", "segment.ts">>
uOtherDots == sHTTP \o <<"other.com", "/", "a", "/", "..", "/", "segment.ts">>

\* The empty reference, every reference of 1..MaxRefElements elements
\* joined by "/", with and without a "/" in front, and those.
References ==
    {lead \o JoinSlash(es) :
        lead \in {<<>>, <<"/">>},
        es \in UNION {[1..n -> RefElements] : n \in 0..MaxRefElements}}
        \cup {uOther, uOtherDots}

(***************************************************************************)
(* Parser.ParseFromURL and Parser.ParseFromFile up to the call of          *)
(* parseContent, and Parser.ResolveURL.                                    *)
(***************************************************************************)
\* A ParseFromURL that records the base before it looks at the response.
fetchURLBaseFirst(base, manifestURL, resp) ==
    IF resp.openErr
    THEN [err |-> "failed to fetch manifest", baseURL |-> base]
    ELSE IF resp.StatusCode # StatusOK
    THEN [err |-> "HTTP error", baseURL |-> getBaseURL(manifestURL)]
    ELSE IF resp.readErr
    THEN [err |-> "failed to read manifest", baseURL |-> getBaseURL(manifestURL)]
    ELSE [err |-> "", baseURL |-> getBaseURL(manifestURL)]

\* ParseFromURL before parseContent: the error it returns ("" for none) and
\* p.baseURL afterwards.
fetchURL(base, manifestURL, resp) ==
    IF resp.openErr
    THEN [err |-> "failed to fetch manifest", baseURL |-> base]
    ELSE IF resp.StatusCode # StatusOK
    THEN [err |-> "HTTP error", baseURL |-> base]
    ELSE IF resp.readErr
    THEN [err |-> "failed to read manifest", baseURL |-> base]
    ELSE [err |-> "", baseURL |-> getBaseURL(manifestURL)]

\* ParseFromFile before parseContent, likewise.
fetchFile(base, filePath, resp) ==
    IF resp.openErr
    THEN [err |-> "failed to open file", baseURL |-> base]
    ELSE IF resp.readErr
    THEN [err |-> "failed to read file", baseURL |-> base]
    ELSE [err |-> "", baseURL |-> pathDir(filePath)]

\* The call up to "return nil, err" or up to the call of parseContent.  The
\* locals of the call before are gone.
acquire(kind, name, resp, r) ==
    /\ pc \in {"idle", "done", "failed"}
    /\ resolved = <<>>
    /\ source' = [kind |-> kind, name |-> name, openErr |-> resp.openErr,
                  StatusCode |-> resp.StatusCode, readErr |-> resp.readErr,
                  body |-> resp.body]
    /\ err' = r.err
    /\ baseURL' = r.baseURL
    /\ returned' = <<>>
    /\ IF r.err = ""
       THEN /\ pc' = "start"
            /\ content' = resp.body
            /\ sourceURL' = name
       ELSE /\ pc' = "failed"
            /\ content' = <<>>
            /\ sourceURL' = <<>>
    /\ manifest' = ZeroManifest
    /\ scanner' = <<>>
    /\ lineNumber' = 0
    /\ variants' = <<>>
    /\ currentVariant' = <<>>
    /\ segments' = <<>>
    /\ sequence' = 0
    /\ currentSegment' = <<>>
    /\ currentKey' = 0
    /\ currentMap' = 0
    /\ UNCHANGED <<keyHeap, mapHeap, tokenizerVars, resolveVars,
                   clientVars, tuiVars>>

ParseFromURL ==
    \E manifestURL \in ManifestURLs, resp \in Responses :
        acquire("url", manifestURL, resp, fetchURL(baseURL, manifestURL, resp))

ParseFromFile ==
    \E filePath \in FilePaths, resp \in FileResponses :
        acquire("file", filePath, resp, fetchFile(baseURL, filePath, resp))

\* resolved := p.ResolveURL(u), after the parses: the parser is followed
\* through its parses first and through one reference then.
callResolveURL ==
    /\ pc \in {"idle", "done", "failed"}
    /\ resolved = <<>>
    /\ \E u \in References :
          /\ relativeURL' = u
          /\ resolved' = <<ResolveURL(baseURL, u)>>
    /\ UNCHANGED <<parserVars, tokenizerVars, sourceVars, clientVars, tuiVars>>

\* p.ResolveURL(resolved): the resolver on its own result.
callResolveURLAgain ==
    /\ pc \in {"idle", "done", "failed"}
    /\ Len(resolved) = 1
    /\ resolved' = Append(resolved, ResolveURL(baseURL, resolved[1]))
    /\ UNCHANGED <<relativeURL, parserVars, tokenizerVars, sourceVars,
                   clientVars, tuiVars>>

(***************************************************************************)
(* The application: App, MasterView, MediaView, SegmentView.  A Manifest   *)
(* is reduced here to what the application reads of it: URL, Type, BaseURL *)
(* and the targets of its navigable lines (Items); fetch tells the         *)
(* Manifest objects of two fetches of one URL apart.                       *)
(***************************************************************************)
\* Goroutines the application starts in one run.
MaxFetches == 3
\* ticks one animation goroutine receives
MaxTicks == 1

\* App.parser, made by NewApp.
AppParser == 1

uHdIndex == sHTTP \o <<"example.com", "/", "hd", "/", "index.m3u8">>
uSubIndex == sHTTP \o <<"example.com", "/", "sub", "/", "index.m3u8">>
fMedia == <<"/", "local", "/", "path", "/", "media.m3u8">>
rHdIndex == <<"hd", "/", "index.m3u8">>
rSubIndex == <<"sub", "/", "index.m3u8">>
rMedia == <<"media.m3u8">>
rSegment == <<"segment.ts">>

\* What the server and the file system hold: a master manifest with a media
\* manifest and a second master manifest below it, the latter with the
\* absolute URL of the media manifest; a master and a media manifest in one
\* local directory.
Site ==
    (uRootIndex :> [Type |-> "master", Items |-> {rHdIndex, rSubIndex}]) @@
    (uSubIndex :> [Type |-> "master", Items |-> {uHdIndex}]) @@
    (uHdIndex :> [Type |-> "media", Items |-> {rSegment}]) @@
    (fAbsolute :> [Type |-> "master", Items |-> {rMedia}]) @@
    (fMedia :> [Type |-> "media", Items |-> {rSegment}])

isHTTP(u) == HasPrefix(u, sHTTP) \/ HasPrefix(u, sHTTPS)

\* http.Get(u): no answer when the network is down or u has no scheme,
\* else the status of the server.
siteResponse(u, up) ==
    [openErr |-> ~up \/ ~isHTTP(u),
     StatusCode |-> IF u \in DOMAIN Site THEN StatusOK ELSE 404,
     readErr |-> FALSE, body |-> <<>>]

\* os.Open(path).
fileResponse(path) ==
    [openErr |-> path \notin DOMAIN Site \/ isHTTP(path),
     StatusCode |-> 0, readErr |-> FALSE, body |-> <<>>]

\* The Manifest parseContent returns for the text of u.
siteManifest(u, base, n) ==
    [URL |-> u, Type |-> Site[u].Type, BaseURL |-> base,
     Items |-> Site[u].Items, fetch |-> n]

\* p.ParseFromURL(u) / p.ParseFromFile(u) on a parser with baseURL base, as
\* fetch n: the error, the parser's baseURL afterwards and the *Manifest.
parseResult(r, u, n) ==
    [err |-> r.err, baseURL |-> r.baseURL,
     manifest |-> IF r.err = "" THEN <<siteManifest(u, r.baseURL, n)>>
                  ELSE <<>>]

appParseFromURL(base, u, up, n) ==
    parseResult(fetchURL(base, u, siteResponse(u, up)), u, n)

appParseFromFile(base, u, n) ==
    parseResult(fetchFile(base, u, fileResponse(u)), u, n)

\* hideLoadingModal without the call of Stop.
hideLoadingModalKeepTicking(md) ==
    [md EXCEPT !.loadingTicker = 0, !.loadingModal = 0]

\* a.hideLoadingModal(): the ticker, if any, is stopped and forgotten, the
\* modal is forgotten.
hideLoadingModal(md) ==
    [md EXCEPT
        !.stopped = IF md.loadingTicker # 0
                    THEN @ \cup {md.loadingTicker} ELSE @,
        !.loadingTicker = 0,
        !.loadingModal = 0]

\* a.showLoadingModal(message) for load n: a new modal with the message of
\* load n, a new ticker, and a goroutine that has not read a.loadingTicker
\* yet.
showLoadingModal(md, n) ==
    [hideLoadingModal(md) EXCEPT
        !.loadingModal = n,
        !.text = n,
        !.loadingTicker = n,
        !.spinners = @ \cup {[load |-> n, ticker |-> -1, ticks |-> 0]}]

\* a.statusBar.SetStatus / SetError.
setStatus(md, kind) == [md EXCEPT !.status = kind]

\* NewMasterView / NewMediaView(manifest, a.parser), NewSegmentView.
newManifestView(type, m) ==
    [Type |-> type, Manifest |-> m, parser |-> AppParser,
     resolvedURL |-> <<>>]

newSegmentView(resolvedURL) ==
    [Type |-> "segment", Manifest |-> <<>>, parser |-> 0,
     resolvedURL |-> resolvedURL]

getCurrentViewState ==
    [Type |-> currentView[1].Type, Manifest |-> currentView[1].Manifest]

\* The goroutines and queued functions of a view that is no longer the
\* current one keep the view they were started on.
orphaned(t) == IF t.kind = "spin" THEN t ELSE [t EXCEPT !.live = FALSE]

\* a.setCurrentView(view, state); rest is what is left of the queue.
\* AddAndSwitchToPage hides every other page, "loading" included.
setCurrentView(view, rest) ==
    /\ navStack' = IF currentView # <<>>
                   THEN Append(navStack, getCurrentViewState)
                   ELSE navStack
    /\ currentView' = <<view>>
    /\ loading' = FALSE
    /\ tasks' = {orphaned(t) : t \in tasks}
    /\ queue' = [i \in 1..Len(rest) |-> orphaned(rest[i])]

\* a.showManifest(manifest).
showManifest(m, rest) ==
    setCurrentView(newManifestView(m.Type, <<m>>), rest)

\* RunWithURL / RunWithFile: the first parse, on the main goroutine.
run(r) ==
    /\ running = "init"
    /\ parsers' = [parsers EXCEPT ![AppParser] = r.baseURL]
    /\ IF r.err # ""
       THEN /\ running' = "stopped"
            /\ UNCHANGED <<currentView, navStack, tasks, queue, loading,
                           modal>>
       ELSE /\ running' = "running"
            /\ showManifest(r.manifest[1], queue)
            /\ modal' = setStatus(modal, "status")
    /\ UNCHANGED <<fetches, mv>>
    /\ keyPressed' = ""
    /\ UNCHANGED <<parserVars, tokenizerVars, sourceVars, resolveVars,
                   clientVars>>

RunWithURL ==
    \E up \in BOOLEAN :
        run(appParseFromURL(parsers[AppParser], uRootIndex, up, 0))

RunWithFile == run(appParseFromFile(parsers[AppParser], fAbsolute, 0))

\* The key Enter reaches the input capture of the view's text view unless
\* the page "loading" is on top.
selectable ==
    /\ running = "running"
    /\ ~loading
    /\ currentView # <<>>

\* Enter on a navigable line of a master view.
navigateToSubManifest ==
    /\ selectable
    /\ currentView[1].Type = "master"
    /\ fetches < MaxFetches
    /\ \E uri \in currentView[1].Manifest[1].Items :
          tasks' = tasks \cup
            {[kind |-> "navigate", parser |-> 0, fetch |-> fetches + 1,
              url |-> ResolveURL(parsers[AppParser], uri), live |-> TRUE]}
    /\ fetches' = fetches + 1
    /\ loading' = TRUE
    /\ modal' = showLoadingModal(modal, fetches + 1)
    /\ UNCHANGED <<parsers, currentView, navStack, queue, running, mv>>
    /\ keyPressed' = "Enter"
    /\ UNCHANGED <<parserVars, tokenizerVars, sourceVars, resolveVars,
                   clientVars>>

\* The goroutine of navigateToSubManifest up to its QueueUpdateDraw.
navigateFetch ==
    \E t \in tasks, up \in BOOLEAN :
        /\ t.kind = "navigate"
        /\ LET r == IF isHTTP(t.url)
                    THEN appParseFromURL(<<>>, t.url, up, t.fetch)
                    ELSE appParseFromFile(<<>>, t.url, t.fetch)
           IN  /\ parsers' = Append(parsers, r.baseURL)
               /\ queue' = Append(queue,
                    [kind |-> "navigate", err |-> r.err, load |-> t.fetch,
                     manifest |-> r.manifest, live |-> t.live])
        /\ tasks' = tasks \ {t}
        /\ UNCHANGED <<currentView, navStack, running, loading, fetches, mv,
                       modal>>
        /\ keyPressed' = ""
        /\ UNCHANGED <<parserVars, tokenizerVars, sourceVars, resolveVars,
                       clientVars>>

\* Enter on a navigable line of a media view.
navigateToSegment ==
    /\ selectable
    /\ currentView[1].Type = "media"
    /\ \E uri \in currentView[1].Manifest[1].Items :
          setCurrentView(
            newSegmentView(ResolveURL(parsers[AppParser], uri)), queue)
    /\ modal' = setStatus(modal, "status")
    /\ UNCHANGED <<parsers, running, fetches, mv>>
    /\ keyPressed' = "Enter"
    /\ UNCHANGED <<parserVars, tokenizerVars, sourceVars, resolveVars,
                   clientVars>>

\* The key r on a master or media view: MasterView.refresh, MediaView.refresh.
refresh ==
    /\ running = "running"
    /\ currentView # <<>>
    /\ currentView[1].Type \in {"master", "media"}
    /\ fetches < MaxFetches
    /\ tasks' = tasks \cup
            {[kind |-> "refresh", parser |-> currentView[1].parser,
              fetch |-> fetches + 1, url |-> currentView[1].Manifest[1].URL,
              live |-> TRUE]}
    /\ fetches' = fetches + 1
    /\ modal' = setStatus(modal, "status")
    /\ UNCHANGED <<parsers, currentView, navStack, queue, running, loading,
                   mv>>
    /\ keyPressed' = "r"
    /\ UNCHANGED <<parserVars, tokenizerVars, sourceVars, resolveVars,
                   clientVars>>

\* A refresh that hands the new Manifest to its view from the goroutine.
refreshFetchDirect ==
    \E t \in tasks, up \in BOOLEAN :
        /\ t.kind = "refresh"
        /\ LET r == appParseFromURL(parsers[t.parser], t.url, up, t.fetch)
           IN  /\ parsers' = [parsers EXCEPT ![t.parser] = r.baseURL]
               /\ queue' = Append(queue,
                    [kind |-> "refresh", err |-> "refreshed",
                     manifest |-> r.manifest, live |-> t.live])
               /\ currentView' =
                    IF r.err = "" /\ t.live
                    THEN <<[currentView[1] EXCEPT !.Manifest = r.manifest]>>
                    ELSE currentView
        /\ tasks' = tasks \ {t}
        /\ UNCHANGED <<navStack, running, loading, fetches, mv, modal>>
        /\ keyPressed' = ""
        /\ UNCHANGED <<parserVars, tokenizerVars, sourceVars, resolveVars,
                       clientVars>>

\* The goroutine of refresh up to its updateCallback.
refreshFetch ==
    \E t \in tasks, up \in BOOLEAN :
        /\ t.kind = "refresh"
        /\ LET r == appParseFromURL(parsers[t.parser], t.url, up, t.fetch)
           IN  /\ parsers' = [parsers EXCEPT ![t.parser] = r.baseURL]
               /\ queue' = Append(queue,
                    [kind |-> "refresh", err |-> r.err,
                     manifest |-> r.manifest, live |-> t.live])
        /\ tasks' = tasks \ {t}
        /\ UNCHANGED <<currentView, navStack, running, loading, fetches, mv,
                       modal>>
        /\ keyPressed' = ""
        /\ UNCHANGED <<parserVars, tokenizerVars, sourceVars, resolveVars,
                       clientVars>>

\* A refresh that copies the new Manifest into the one the view has.
refreshedInPlace(view, m) ==
    [view EXCEPT !.Manifest =
        <<[m[1] EXCEPT !.fetch = view.Manifest[1].fetch]>>]

\* The function refresh hands to updateCallback, without error:
\* mv.manifest = newManifest; mv.BaseView.manifest = newManifest; the
\* renderer and the navigable items are made anew from it.
refreshed(view, m) == [view EXCEPT !.Manifest = m]

\* The function the animation goroutine of load n hands to QueueUpdateDraw:
\* if a.loadingModal != nil, the modal shows the next frame of the spinner
\* with the message of load n.
spin(md, n) == IF md.loadingModal # 0 THEN [md EXCEPT !.text = n] ELSE md

\* The UI goroutine runs the next function handed to QueueUpdateDraw.
runQueued ==
    /\ running = "running"
    /\ queue # <<>>
    /\ LET f == Head(queue)
       IN  IF f.kind = "navigate"
           THEN IF f.err # ""
                THEN /\ loading' = FALSE
                     /\ queue' = Tail(queue)
                     /\ modal' = setStatus(hideLoadingModal(modal), "error")
                     /\ UNCHANGED <<currentView, navStack, tasks>>
                ELSE /\ showManifest(f.manifest[1], Tail(queue))
                     /\ modal' = setStatus(hideLoadingModal(modal), "status")
           ELSE IF f.kind = "refresh"
           THEN /\ queue' = Tail(queue)
                /\ currentView' =
                     IF f.err = "" /\ f.live
                     THEN <<refreshed(currentView[1], f.manifest)>>
                     ELSE currentView
                /\ modal' = setStatus(modal, "status")
                /\ UNCHANGED <<navStack, tasks, loading>>
           ELSE /\ queue' = Tail(queue)
                /\ modal' = spin(modal, f.load)
                /\ UNCHANGED <<currentView, navStack, tasks, loading>>
    /\ UNCHANGED <<parsers, running, fetches, mv>>
    /\ keyPressed' = ""
    /\ UNCHANGED <<parserVars, tokenizerVars, sourceVars, resolveVars,
                   clientVars>>

\* navigateBack on stack: what is left of it and the view made, <<>> when
\* the state popped last is that of a segment view.
RECURSIVE backFrom(_)
backFrom(stack) ==
    LET lastState == stack[Len(stack)]
        rest == SubSeq(stack, 1, Len(stack) - 1)
    IN  IF lastState.Type = "segment"
        THEN IF Len(rest) > 0 THEN backFrom(rest)
             ELSE [navStack |-> rest, view |-> <<>>]
        ELSE [navStack |-> rest,
              view |-> <<newManifestView(lastState.Type,
                                         lastState.Manifest)>>]

\* a.navigateBack() on a stack that is not empty.  With no view made,
\* view.GetPrimitive() is a call on a nil interface.
navigateBack ==
    LET b == backFrom(navStack)
    IN  /\ navStack' = b.navStack
        /\ IF b.view = <<>>
           THEN /\ running' = "panic"
                /\ currentView' = <<>>
                /\ UNCHANGED <<tasks, queue, loading, modal>>
           ELSE /\ running' = running
                /\ currentView' = b.view
                /\ modal' = setStatus(modal, "status")
                /\ loading' = FALSE
                /\ tasks' = {orphaned(t) : t \in tasks}
                /\ queue' = [i \in 1..Len(queue) |-> orphaned(queue[i])]

\* The key Esc, in the input capture of the application.
pressEscape ==
    /\ running = "running"
    /\ IF Len(navStack) > 0
       THEN navigateBack
       ELSE /\ running' = "stopped"
            /\ UNCHANGED <<currentView, navStack, tasks, queue, loading,
                           modal>>
    /\ UNCHANGED <<parsers, fetches, mv>>
    /\ keyPressed' = "Esc"
    /\ UNCHANGED <<parserVars, tokenizerVars, sourceVars, resolveVars,
                   clientVars>>

\* The key Ctrl-C.
pressCtrlC ==
    /\ running = "running"
    /\ running' = "stopped"
    /\ UNCHANGED <<parsers, currentView, navStack, tasks, queue, loading,
                   fetches, mv, modal>>
    /\ keyPressed' = "Ctrl-C"
    /\ UNCHANGED <<parserVars, tokenizerVars, sourceVars, resolveVars,
                   clientVars>>

\* The application after NewApp, and no view with a text view yet.
NewApp ==
    /\ parsers = <<<<>>>>
    /\ currentView = <<>>
    /\ navStack = <<>>
    /\ tasks = {}
    /\ queue = <<>>
    /\ running = "init"
    /\ loading = FALSE
    /\ fetches = 0
    /\ keyPressed = ""
    /\ modal = [loadingModal |-> 0, loadingTicker |-> 0, text |-> 0,
                stopped |-> {}, spinners |-> {}, status |-> ""]

NoTextView == [height |-> 0, lineOffset |-> 0, lines |-> 0,
               navigableItems |-> {}, currentLine |-> 1]

(***************************************************************************)
(* MasterView / MediaView: the selected line and the scroll offset of the  *)
(* text view.  mv.lines is the number of lines of the manifest,            *)
(* mv.navigableItems the line numbers GetNavigableItems maps, mv.height    *)
(* the height GetInnerRect returns and mv.lineOffset the row               *)
(* GetScrollOffset returns and ScrollTo sets.                              *)
(***************************************************************************)
\* Lines of the manifest shown and rows of the text view.
MaxViewLines == 5

MaxHeight == 3

scrollToLineIfNeeded(v, lineNum) ==
    LET height == v.height
        currentRow == v.lineOffset
        targetRow == lineNum - 1
        bottomVisibleRow == currentRow + height - 1
        newScrollRow == targetRow - height + 2
    IN  IF lineNum <= 0 THEN v
        ELSE IF targetRow < currentRow
        THEN [v EXCEPT !.lineOffset = targetRow]
        ELSE IF targetRow > bottomVisibleRow
        THEN [v EXCEPT !.lineOffset =
                        IF newScrollRow < 0 THEN 0 ELSE newScrollRow]
        ELSE v

\* mv.currentLine = line; mv.highlightCurrentLine().
highlightLine(v, line) ==
    scrollToLineIfNeeded([v EXCEPT !.currentLine = line], line)

\* mv.navigateUp(): the nearest navigable line above the current one, and
\* nothing when there is none.
navigateUp(v) ==
    LET above == {l \in v.navigableItems : 1 <= l /\ l < v.currentLine}
    IN  IF above = {} THEN v
        ELSE highlightLine(v, CHOOSE l \in above : \A k \in above : k <= l)

\* A Down that goes on from the last navigable line to the first one.
navigateDownWrapping(v) ==
    LET items == {l \in v.navigableItems : 1 <= l /\ l <= v.lines}
        below == {l \in items : v.currentLine < l}
        next == IF below = {} THEN items ELSE below
    IN  IF next = {} THEN v
        ELSE highlightLine(v, CHOOSE l \in next : \A k \in next : l <= k)

\* mv.navigateDown(): the nearest navigable line below the current one, up
\* to the last line of the manifest, and nothing when there is none.
navigateDown(v) ==
    LET below == {l \in v.navigableItems :
                    v.currentLine < l /\ l <= v.lines}
    IN  IF below = {} THEN v
        ELSE highlightLine(v, CHOOSE l \in below : \A k \in below : l <= k)

\* What the steps of a view leave alone.
viewFrame ==
    UNCHANGED <<parserVars, tokenizerVars, sourceVars, resolveVars,
                clientVars, parsers, currentView, navStack, tasks, queue,
                running, loading, fetches, modal>>

\* The keys Up and Down in the input capture of the text view.
pressUp ==
    /\ mv' = navigateUp(mv)
    /\ keyPressed' = "Up"
    /\ viewFrame

pressDown ==
    /\ mv' = navigateDown(mv)
    /\ keyPressed' = "Down"
    /\ viewFrame

\* The keys the text view handles itself (j, k, g, G, PgUp, PgDn): the user
\* scrolls to a row.
scrollByUser ==
    /\ \E row \in 0..(mv.lines - 1) : mv' = [mv EXCEPT !.lineOffset = row]
    /\ keyPressed' = "scroll"
    /\ viewFrame

\* TextView.Draw: an offset past the last full page is moved back to it.
draw ==
    /\ mv' = [mv EXCEPT !.lineOffset =
                IF mv.lineOffset + mv.height > mv.lines
                THEN (IF mv.lines - mv.height < 0 THEN 0
                      ELSE mv.lines - mv.height)
                ELSE mv.lineOffset]
    /\ keyPressed' = ""
    /\ viewFrame

\* A view whose current line is always line 1.
firstLine(items) == 1

\* setupContent: the first navigable line is the current one, line 1 when
\* there is none.
firstNavigable(items) ==
    IF items = {} THEN 1 ELSE CHOOSE l \in items : \A k \in items : l <= k

\* mv.setupContent() on a view that has a current line already: the line
\* stays when no line is navigable.
setupContent(v) ==
    [v EXCEPT !.currentLine =
        IF v.navigableItems = {} THEN @ ELSE firstNavigable(v.navigableItems)]

\* The function refresh hands to updateCallback: with an error nothing but
\* the status bar changes.
refreshFailed ==
    /\ mv' = mv
    /\ keyPressed' = "r"
    /\ viewFrame

\* Without error: the manifest, the renderer and the navigable items are
\* those of the new Manifest, of n lines, and setupContent runs again.
refreshDone ==
    /\ \E n \in 1..MaxViewLines, items \in SUBSET (1..MaxViewLines) :
          /\ items \subseteq 1..n
          /\ mv' = setupContent([mv EXCEPT !.lines = n,
                                           !.navigableItems = items])
    /\ keyPressed' = "r"
    /\ viewFrame

\* The views NewMasterView / NewMediaView return, once drawn at a height.
TextViews ==
    {[height |-> h, lineOffset |-> 0, lines |-> n, navigableItems |-> items,
      currentLine |-> firstNavigable(items)] :
        h \in 1..MaxHeight, n \in 1..MaxViewLines,
        items \in SUBSET (1..MaxViewLines)}

(***************************************************************************)
(* Specifications.                                                         *)
(***************************************************************************)
\* No call of ParseFromURL or ParseFromFile answered.
NoSource ==
    [kind |-> "", name |-> <<>>, openErr |-> FALSE, StatusCode |-> 0,
     readErr |-> FALSE, body |-> <<>>]

\* A parser NewParser returned, and the argument sourceURL the tests give
\* parseContent.
InitResolver ==
    /\ baseURL = <<>>
    /\ sourceURL = <<"test.m3u8">>
    /\ source = NoSource
    /\ err = ""
    /\ returned = <<>>
    /\ relativeURL = <<>>
    /\ resolved = <<>>
    /\ navigableItems = <<>>
    /\ original = <<>>
    /\ opened = <<>>
    /\ NewApp
    /\ mv = NoTextView

\* The parser before parseContent(text, ...) on a document of docs.
InitParser(docs) ==
    /\ content \in docs
    /\ pc = "start"
    /\ manifest = ZeroManifest
    /\ scanner = <<>>
    /\ lineNumber = 0
    /\ variants = <<>>
    /\ currentVariant = <<>>
    /\ segments = <<>>
    /\ sequence = 0
    /\ currentSegment = <<>>
    /\ currentKey = 0
    /\ currentMap = 0
    /\ keyHeap = <<>>
    /\ mapHeap = <<>>
    /\ attrStr = <<>>
    /\ tokenized = "no"
    /\ parts = <<>>
    /\ rendererParts = <<>>
    /\ attrs = EmptyMap
    /\ InitResolver

\* Any document: master and media manifests.
Init == InitParser(Documents(DocLineSet, MaxDocLines))

Next ==
    \/ parseContent
    \/ parseMasterManifestStep
    \/ parseMasterManifestEnd
    \/ parseMediaManifestStep
    \/ parseMediaManifestEnd

Spec == Init /\ [][Next]_vars

\* Media manifests: segments, media sequence, keys and maps.
InitMedia == InitParser(Documents(MediaLineSet, MaxMediaLines))

NextMedia ==
    \/ parseContent
    \/ parseMediaManifestStep
    \/ parseMediaManifestEnd

SpecMedia == InitMedia /\ [][NextMedia]_vars

\* Media manifests with malformed lines.
InitMalformed == InitParser(Documents(MalformedLineSet, MaxBadLines))

SpecMalformed == InitMalformed /\ [][NextMedia]_vars

\* Media manifests with byte ranges.
InitByteRange == InitParser(Documents(ByteRangeLineSet, MaxByteRangeLines))

SpecByteRange == InitByteRange /\ [][NextMedia]_vars

\* Master and media manifests with numeric tags.
InitNumbers == InitParser(Documents(NumberLineSet, MaxNumberLines))

SpecNumbers == InitNumbers /\ [][Next]_vars

\* A parser from NewParser on, through calls of ParseFromURL, ParseFromFile
\* and ResolveURL.
InitSource ==
    /\ content = <<>>
    /\ pc = "idle"
    /\ manifest = ZeroManifest
    /\ scanner = <<>>
    /\ lineNumber = 0
    /\ variants = <<>>
    /\ currentVariant = <<>>
    /\ segments = <<>>
    /\ sequence = 0
    /\ currentSegment = <<>>
    /\ currentKey = 0
    /\ currentMap = 0
    /\ keyHeap = <<>>
    /\ mapHeap = <<>>
    /\ attrStr = <<>>
    /\ tokenized = "no"
    /\ parts = <<>>
    /\ rendererParts = <<>>
    /\ attrs = EmptyMap
    /\ baseURL = <<>>
    /\ sourceURL = <<>>
    /\ source = NoSource
    /\ err = ""
    /\ returned = <<>>
    /\ relativeURL = <<>>
    /\ resolved = <<>>
    /\ navigableItems = <<>>
    /\ original = <<>>
    /\ opened = <<>>
    /\ NewApp
    /\ mv = NoTextView

NextSource ==
    \/ ParseFromURL
    \/ ParseFromFile
    \/ parseContent
    \/ parseMasterManifestStep
    \/ parseMasterManifestEnd
    \/ parseMediaManifestStep
    \/ parseMediaManifestEnd
    \/ callResolveURL
    \/ callResolveURLAgain

SpecSource == InitSource /\ [][NextSource]_vars

\* The application from NewApp on: the first parse, the keys Enter, r, Esc
\* and Ctrl-C, the goroutines and the functions they queue.
InitApp == InitSource

NextApp ==
    \/ RunWithURL
    \/ RunWithFile
    \/ navigateToSubManifest
    \/ navigateFetch
    \/ navigateToSegment
    \/ refresh
    \/ refreshFetch
    \/ runQueued
    \/ pressEscape
    \/ pressCtrlC

SpecApp == InitApp /\ [][NextApp]_vars

\* ---- the goroutine of the loading animation ----

animationFrame ==
    /\ UNCHANGED <<parsers, currentView, navStack, tasks, loading, fetches,
                   mv>>
    /\ keyPressed' = ""
    /\ UNCHANGED <<parserVars, tokenizerVars, sourceVars, resolveVars,
                   clientVars>>

\* The goroutine evaluates a.loadingTicker.C, once, when it is first
\* scheduled: it reads the field the UI goroutine writes, without
\* synchronisation, and gets the ticker that is there at that moment; a nil
\* pointer there is dereferenced and the program panics.
animationRead ==
    /\ running = "running"
    /\ \E g \in modal.spinners :
          /\ g.ticker = -1
          /\ modal' = [modal EXCEPT !.spinners =
                (@ \ {g}) \cup {[g EXCEPT !.ticker = modal.loadingTicker]}]
          /\ running' = IF modal.loadingTicker = 0 THEN "panic" ELSE running
    /\ queue' = queue
    /\ animationFrame

\* The goroutine receives a tick of the ticker it ranges over and hands the
\* update of the modal to QueueUpdateDraw; a stopped ticker sends no tick.
animationTick ==
    /\ running = "running"
    /\ \E g \in modal.spinners :
          /\ g.ticker > 0
          /\ g.ticker \notin modal.stopped
          /\ g.ticks < MaxTicks
          /\ modal' = [modal EXCEPT !.spinners =
                (@ \ {g}) \cup {[g EXCEPT !.ticks = @ + 1]}]
          /\ queue' = Append(queue, [kind |-> "spin", load |-> g.load])
    /\ running' = running
    /\ animationFrame

NextLoading == NextApp \/ animationRead \/ animationTick

SpecLoading == InitApp /\ [][NextLoading]_vars

\* A master or media view under the keys Up and Down.
InitScroll ==
    /\ content = <<>>
    /\ pc = "idle"
    /\ manifest = ZeroManifest
    /\ scanner = <<>>
    /\ lineNumber = 0
    /\ variants = <<>>
    /\ currentVariant = <<>>
    /\ segments = <<>>
    /\ sequence = 0
    /\ currentSegment = <<>>
    /\ currentKey = 0
    /\ currentMap = 0
    /\ keyHeap = <<>>
    /\ mapHeap = <<>>
    /\ attrStr = <<>>
    /\ tokenized = "no"
    /\ parts = <<>>
    /\ rendererParts = <<>>
    /\ attrs = EmptyMap
    /\ baseURL = <<>>
    /\ sourceURL = <<>>
    /\ source = NoSource
    /\ err = ""
    /\ returned = <<>>
    /\ relativeURL = <<>>
    /\ resolved = <<>>
    /\ navigableItems = <<>>
    /\ original = <<>>
    /\ opened = <<>>
    /\ NewApp
    /\ mv \in {v \in TextViews : v.navigableItems \subseteq 1..v.lines}

NextScroll ==
    \/ pressUp
    \/ pressDown
    \/ scrollByUser
    \/ draw
    \/ refreshFailed
    \/ refreshDone

SpecScroll == InitScroll /\ [][NextScroll]_vars

\* A renderer on the Manifest the parser returned (NewManifestRenderer), or on
\* nil before the parser has returned one.
callGetNavigableItems ==
    /\ pc \in {"start", "done"}
    /\ navigableItems = <<>>
    /\ navigableItems' =
            <<[manifest |-> returned, items |-> GetNavigableItems(returned)]>>
    /\ UNCHANGED <<parserVars, tokenizerVars, sourceVars, resolveVars,
                   original, opened, tuiVars>>

\* The input capture of MediaView on the key Enter with line as the current
\* line: the callback it calls and the argument, <<>> when it calls none.
enterOnLine(m, items, line) ==
    IF line \notin DOMAIN items THEN <<>>
    ELSE LET uri == items[line]
             found == {i \in 1..Len(m.Segments) : m.Segments[i].URI = uri}
             first == CHOOSE i \in found : \A j \in found : i <= j
         IN  IF found # {}
             THEN <<[line |-> line, callback |-> "segmentNavigation",
                     segment |-> <<m.Segments[first]>>, uri |-> uri]>>
             ELSE <<[line |-> line, callback |-> "navigation",
                     segment |-> <<>>, uri |-> uri]>>

\* Enter on a media view made for the Manifest the parser returned, with
\* any of its navigable lines as the current line.
pressEnter ==
    /\ pc = "done"
    /\ returned # <<>>
    /\ returned[1].Type = "media"
    /\ opened = <<>>
    /\ \E line \in DOMAIN GetNavigableItems(returned) :
          opened' = enterOnLine(returned[1], GetNavigableItems(returned), line)
    /\ UNCHANGED <<parserVars, tokenizerVars, sourceVars, resolveVars,
                   navigableItems, original, tuiVars>>

InitEnter == InitParser(Documents(EnterLineSet, MaxEnterLines))

NextEnter ==
    \/ parseContent
    \/ parseMediaManifestStep
    \/ parseMediaManifestEnd
    \/ pressEnter

SpecEnter == InitEnter /\ [][NextEnter]_vars

\* Master and media playlists of tags that start an entry, with a duration
\* that parses or not, and of URI lines, in every order.
CommitLineSet == {lStreamInf, lVariantURI, lExtinf, lExtinfBad, lSegmentURI}

MaxCommitLines == 4

InitCommit == InitParser(Documents(CommitLineSet, MaxCommitLines))

SpecCommit == InitCommit /\ [][Next]_vars

InitNavigable == InitParser(NavDocuments)

NextNavigable ==
    \/ parseContent
    \/ parseMasterManifestStep
    \/ parseMasterManifestEnd
    \/ parseMediaManifestStep
    \/ parseMediaManifestEnd
    \/ callGetNavigableItems

SpecNavigable == InitNavigable /\ [][NextNavigable]_vars

\* A second call parseContent(m.Content, m.URL) of the same parser on the
\* Manifest m it returned.
reparse ==
    /\ pc = "done"
    /\ original = <<>>
    /\ original' = returned
    /\ content' = returned[1].Content
    /\ sourceURL' = returned[1].URL
    /\ pc' = "start"
    /\ UNCHANGED <<manifest, scanner, lineNumber, variants, currentVariant,
                   segments, sequence, currentSegment, currentKey, currentMap,
                   keyHeap, mapHeap, tokenizerVars, baseURL, source, err,
                   returned, resolveVars, navigableItems, opened, tuiVars>>

InitReparse == InitParser(Documents(ReparseLineSet, MaxReparseLines))

NextReparse ==
    \/ parseContent
    \/ parseMasterManifestStep
    \/ parseMasterManifestEnd
    \/ parseMediaManifestStep
    \/ parseMediaManifestEnd
    \/ reparse

SpecReparse == InitReparse /\ [][NextReparse]_vars

\* The state around the tokenizers before a call on one of strs.
InitAttr(strs) ==
    /\ attrStr \in strs
    /\ tokenized = "no"
    /\ parts = <<>>
    /\ rendererParts = <<>>
    /\ attrs = EmptyMap
    /\ content = <<>>
    /\ pc = "start"
    /\ manifest = ZeroManifest
    /\ scanner = <<>>
    /\ lineNumber = 0
    /\ variants = <<>>
    /\ currentVariant = <<>>
    /\ segments = <<>>
    /\ sequence = 0
    /\ currentSegment = <<>>
    /\ currentKey = 0
    /\ currentMap = 0
    /\ keyHeap = <<>>
    /\ mapHeap = <<>>
    /\ InitResolver

InitSplit == InitAttr(AttrStrings)

NextSplit ==
    \/ callSplitAttributes
    \/ callRendererSplitAttributes

SpecSplit == InitSplit /\ [][NextSplit]_vars

\* parseAttributes on an attribute string.
InitAttributes == InitAttr(PairStrings)

NextAttributes == callParseAttributes

SpecAttributes == InitAttributes /\ [][NextAttributes]_vars

(***************************************************************************)
(* Properties.                                                             *)
(***************************************************************************)
\* What a Segment's Key / Map pointer refers to: <<>> for nil.
KeyValue(heap, ptr) == IF ptr = 0 THEN <<>> ELSE <<heap[ptr]>>

MapValue(heap, ptr) == IF ptr = 0 THEN <<>> ELSE <<heap[ptr]>>

\* The parse returned a media manifest.
MediaDone == pc = "done" /\ manifest.Type = "media"

\* The parse returned a master manifest.
MasterDone == pc = "done" /\ manifest.Type = "master"

\* The numbers, among the first n lines of the document, of the lines that
\* start with prefix.
LinesWithPrefix(prefix, n) ==
    {k \in 1..n : HasPrefix(manifest.Lines[k].Content, prefix)}

Max(S) == CHOOSE x \in S : \A y \in S : y <= x

\* C1: in every media manifest parseContent returns, whatever the order of
\* its lines, consecutive segments have consecutive sequence numbers.
C1_ConsecutiveSequences ==
    MediaDone =>
        \A i \in 2..Len(manifest.Segments) :
            manifest.Segments[i].Sequence = manifest.Segments[i - 1].Sequence + 1

\* C2: in every media manifest with a segment, the first segment's sequence
\* is the manifest's media sequence, wherever the EXT-X-MEDIA-SEQUENCE tag is.
C2_FirstSequenceIsMediaSequence ==
    (MediaDone /\ Len(manifest.Segments) >= 1) =>
        manifest.Segments[1].Sequence = manifest.Sequence

\* C3: when a segment is committed (at its URI line), its key and its map are
\* the values of the most recent #EXT-X-KEY and #EXT-X-MAP tags among the
\* lines read so far, that line included, and none when there is no such tag.
C3_KeyAndMapAtCommit ==
    [][Len(segments') = Len(segments) + 1 =>
          LET s == segments'[Len(segments')]
              keyLines == LinesWithPrefix(pKey, lineNumber')
              mapLines == LinesWithPrefix(pMap, lineNumber')
          IN  /\ KeyValue(keyHeap', s.Key) =
                    IF keyLines = {} THEN <<>>
                    ELSE <<keyOf(manifest.Lines[Max(keyLines)].Content)>>
              /\ MapValue(mapHeap', s.Map) =
                    IF mapLines = {} THEN <<>>
                    ELSE <<mapOf(manifest.Lines[Max(mapLines)].Content)>>]_vars

\* C4: no step changes the key or the map of a segment that is committed or
\* pending: a commit, the final assignment of manifest.Segments and a later
\* #EXT-X-KEY or #EXT-X-MAP tag all leave the values the segments refer to.
C4_SnapshotsByValue ==
    [][/\ \A i \in 1..Len(segments) :
            /\ i <= Len(segments')
            /\ KeyValue(keyHeap', segments'[i].Key) =
                   KeyValue(keyHeap, segments[i].Key)
            /\ MapValue(mapHeap', segments'[i].Map) =
                   MapValue(mapHeap, segments[i].Map)
       /\ (currentSegment # <<>> /\ currentSegment' = currentSegment) =>
            /\ KeyValue(keyHeap', currentSegment'[1].Key) =
                   KeyValue(keyHeap, currentSegment[1].Key)
            /\ MapValue(mapHeap', currentSegment'[1].Map) =
                   MapValue(mapHeap, currentSegment[1].Map)
       /\ (currentSegment # <<>> /\ Len(segments') = Len(segments) + 1) =>
            /\ KeyValue(keyHeap', segments'[Len(segments')].Key) =
                   KeyValue(keyHeap, currentSegment[1].Key)
            /\ MapValue(mapHeap', segments'[Len(segments')].Map) =
                   MapValue(mapHeap, currentSegment[1].Map)
       /\ pc' = "done" =>
            /\ Len(manifest'.Segments) = Len(segments)
            /\ \A i \in 1..Len(segments) :
                 /\ KeyValue(keyHeap', manifest'.Segments[i].Key) =
                        KeyValue(keyHeap, segments[i].Key)
                 /\ MapValue(mapHeap', manifest'.Segments[i].Map) =
                        MapValue(mapHeap, segments[i].Map)]_vars

\* C4's case: a committed and a pending segment share one Key object, and a
\* later #EXT-X-KEY tag has been processed.
C4_Witness ==
    /\ pc = "media"
    /\ Len(segments) >= 1
    /\ currentSegment # <<>>
    /\ segments[1].Key # 0
    /\ currentSegment[1].Key = segments[1].Key
    /\ currentKey # segments[1].Key
    /\ keyHeap[currentKey] # keyHeap[segments[1].Key]

\* The numbers of the lines of the document whose trimmed content starts
\* with #EXT.
TagLines ==
    {k \in 1..Len(manifest.Lines) : HasPrefix(manifest.Lines[k].Content, sExt)}

\* C5: the returned manifest's tags are one Tag per line that starts with
\* #EXT, in document order, each with the number of its line, whatever the
\* lines took part in and however long any line is.
C5_OneTagPerTagLine ==
    pc = "done" =>
        /\ Len(manifest.Tags) = Cardinality(TagLines)
        /\ \A k \in 1..Len(manifest.Tags) :
              manifest.Tags[k].LineNumber \in TagLines
        /\ \A k \in 2..Len(manifest.Tags) :
              manifest.Tags[k - 1].LineNumber < manifest.Tags[k].LineNumber

\* The pairs <<i, j>>: line i is a #EXT-X-STREAM-INF: line and line j the
\* next line after it that is neither empty nor starts with #, with no other
\* #EXT-X-STREAM-INF: line between them.
StreamInfPairs ==
    LET L == manifest.Lines
    IN  {p \in (1..Len(L)) \X (1..Len(L)) :
            /\ p[1] < p[2]
            /\ HasPrefix(L[p[1]].Content, pStreamInf)
            /\ L[p[2]].Type = "uri"
            /\ \A k \in (p[1] + 1)..(p[2] - 1) :
                  /\ L[k].Type # "uri"
                  /\ ~HasPrefix(L[k].Content, pStreamInf)}

\* The place of a pair among the pairs, in document order.
PairRank(p) == Cardinality({q \in StreamInfPairs : q[2] <= p[2]})

\* C6: in a master manifest every such pair appends one Variant: its uri is
\* line j, its attributes the parsed map of line i, resolution and codecs
\* the RESOLUTION and CODECS attributes, bandwidth the integer BANDWIDTH or 0
\* when absent or unparsable.
C6_VariantPerStreamInf ==
    MasterDone =>
        /\ Len(manifest.Variants) = Cardinality(StreamInfPairs)
        /\ \A p \in StreamInfPairs :
              LET v == manifest.Variants[PairRank(p)]
                  expected == parseAttributes(
                      TrimPrefix(manifest.Lines[p[1]].Content, pStreamInf))
              IN  /\ v.URI = manifest.Lines[p[2]].Content
                  /\ v.Attributes = expected
                  /\ v.Resolution = MapGet(expected, <<"RESOLUTION">>)
                  /\ v.Codecs = MapGet(expected, <<"CODECS">>)
                  /\ v.Bandwidth =
                        IF Atoi(MapGet(expected, <<"BANDWIDTH">>)).ok
                        THEN Atoi(MapGet(expected, <<"BANDWIDTH">>)).val
                        ELSE 0

\* The raw text holds #EXT-X-STREAM-INF or #EXT-X-I-FRAME-STREAM-INF at some
\* place, line start or not.
TagAnywhere ==
    \E i \in 1..(Len(content) - 2) :
        /\ content[i] = "#"
        /\ content[i + 1] = "EXT"
        /\ content[i + 2] \in {"-X-STREAM-INF", "-X-I-FRAME-STREAM-INF"}

\* C7: parseContent classifies the document as master exactly when its raw
\* text holds one of the two tags anywhere, and as media otherwise.
C7_MasterIffTagAnywhere ==
    pc # "start" =>
        manifest.Type = IF TagAnywhere THEN "master" ELSE "media"

\* C7's case: a master manifest none of whose lines starts with the tag.
C7_Witness ==
    /\ MasterDone
    /\ \A k \in 1..Len(manifest.Lines) :
          /\ ~HasPrefix(manifest.Lines[k].Content, sStreamInf)
          /\ ~HasPrefix(manifest.Lines[k].Content, sIFrameStreamInf)

TopLevelCommas ==
    {i \in 1..Len(attrStr) :
        /\ attrStr[i] = ","
        /\ Cardinality({j \in 1..(i - 1) : attrStr[j] = "\""}) % 2 = 0}

\* The places attrStr is cut at: before it, at those commas, after it.
Cuts == {0, Len(attrStr) + 1} \cup TopLevelCommas

NextCut(a) == CHOOSE b \in Cuts : b > a /\ \A c \in Cuts : c > a => b <= c

\* The cuts a non-empty segment starts after.
SegmentStarts == {a \in Cuts : a <= Len(attrStr) /\ NextCut(a) > a + 1}

\* C9: splitAttributes returns, in input order, the non-empty stretches of
\* its input between the commas outside quotes, quote characters included;
\* after an unbalanced quote the rest of the input is one segment.
C9_SplitsAtTopLevelCommas ==
    tokenized # "no" =>
        /\ Len(parts) = Cardinality(SegmentStarts)
        /\ \A a \in SegmentStarts :
              parts[Cardinality({b \in SegmentStarts : b <= a})] =
                  SubSeq(attrStr, a + 1, NextCut(a) - 1)

\* C9's case: A=1,B="hello,world",C=3 gives three segments.
C9_Witness ==
    /\ tokenized # "no"
    /\ attrStr = lSplitExample
    /\ parts = << <<"A", "=", "1">>,
                  <<"B", "=", "\"", "hello", ",", "world", "\"">>,
                  <<"C", "=", "3">> >>

Trimmed(segment) == segment # <<>> /\ TrimSpace(segment) = segment

\* C10: every segment the attribute tokenizers return (the parser's and the
\* renderer's) is trimmed of leading and trailing whitespace and not empty.
C10_SegmentsTrimmedAndNonEmpty ==
    tokenized = "both" =>
        /\ \A i \in 1..Len(parts) : Trimmed(parts[i])
        /\ \A i \in 1..Len(rendererParts) : Trimmed(rendererParts[i])

\* The 1-based place of the first "=" of a segment, 0 when it has none.
FirstEq(part) ==
    IF \E i \in 1..Len(part) : part[i] = "="
    THEN CHOOSE i \in 1..Len(part) :
            part[i] = "=" /\ \A j \in 1..(i - 1) : part[j] # "="
    ELSE 0

\* The key of a segment with "=": what precedes its first "=", trimmed.
PairKey(part) == TrimSpace(SubSeq(part, 1, FirstEq(part) - 1))

\* The value text of a segment with "=": all that follows its first "=".
PairText(part) == TrimSpace(SubSeq(part, FirstEq(part) + 1, Len(part)))

\* The places, among the tokenized segments, of those with "=".
Pairs == {i \in 1..Len(parts) : FirstEq(parts[i]) # 0}

\* The last segment with key k.
LastPair(k) == Max({i \in Pairs : PairKey(parts[i]) = k})

\* C11: the keys of the map parseAttributes returns are the trimmed texts
\* before the first "=" of the segments that have one (segments without "="
\* leave no entry), and the value of a key is the text after the first "=" of
\* the last segment with that key, with or without its surrounding quotes.
C11_FirstEqualsLastKeyWins ==
    tokenized = "parsed" =>
        /\ DOMAIN attrs = {PairKey(parts[i]) : i \in Pairs}
        /\ \A k \in DOMAIN attrs :
              LET text == PairText(parts[LastPair(k)])
              IN  attrs[k] \in {text, SubSeq(text, 2, Len(text) - 1)}

\* C11's case: K=x, junk, K = a=b gives the one key K with value a=b.
C11_Witness ==
    /\ tokenized = "parsed"
    /\ attrStr = lRepeatedKey
    /\ Len(parts) = 3
    /\ DOMAIN attrs = {<<"K">>}
    /\ attrs[<<"K">>] = <<"a", "=", "b">>

\* C12: the value of a key is the trimmed text after the first "=" without
\* its first and last character when it has two characters or more and both
\* are double quotes, and that trimmed text itself otherwise.
C12_OneLayerOfQuotes ==
    tokenized = "parsed" =>
        \A k \in DOMAIN attrs :
            LET text == PairText(parts[LastPair(k)])
                quoted == /\ Len(text) >= 2
                          /\ text[1] = "\""
                          /\ text[Len(text)] = "\""
            IN  /\ quoted => attrs[k] = SubSeq(text, 2, Len(text) - 1)
                /\ ~quoted => attrs[k] = text

\* C12's case: CODECS="avc1,mp4a" gives the one key CODECS whose value holds
\* the comma and no quotes.
C12_Witness ==
    /\ tokenized = "parsed"
    /\ attrStr = lCodecs
    /\ DOMAIN attrs = {<<"CODECS">>}
    /\ attrs[<<"CODECS">>] = <<"avc1", ",", "mp4a">>

\* C13: whatever follows the colon of a #EXTINF: line, the step that reads
\* the line makes a Segment pending, with the running sequence and with the
\* parsed duration or zero, and increments the running sequence.
C13_EveryExtinfStartsSegment ==
    [][(/\ pc = "media"
        /\ ScanOk(scanner)
        /\ HasPrefix(scanLine, pExtinf)
        /\ lineNumber' = lineNumber + 1) =>
          /\ currentSegment' # <<>>
          /\ currentSegment'[1].Sequence = sequence
          /\ currentSegment'[1].Duration =
                IF ParseFloat(durationStr(scanLine)).ok
                THEN ParseFloat(durationStr(scanLine)).val ELSE 0
          /\ sequence' = sequence + 1]_vars

\* C14: the parse never ends before the end of the text: when parseContent
\* returns, the scanner has no unread input left.
C14_NoLineStopsProcessing == pc = "done" => scanner = <<>>

\* The answer the source gave cannot be used: the path did not open or did
\* not read to its end, the request had no answer, the status is not 200.
AcquisitionFails(src) ==
    \/ src.openErr
    \/ src.readErr
    \/ src.kind = "url" /\ src.StatusCode # 200

\* C15: a call of ParseFromFile or ParseFromURL returns an error exactly
\* when the acquisition fails, and then it returns no Manifest and leaves
\* baseURL as it was; no step of the parse that follows a successful
\* acquisition fails, and the parse returns a Manifest and no error.
C15_OnlyAcquisitionFails ==
    [][/\ (pc \in {"idle", "done", "failed"} /\ pc' \in {"start", "failed"}) =>
            /\ pc' = "failed" <=> AcquisitionFails(source')
            /\ pc' = "failed" =>
                  (err' # "" /\ returned' = <<>> /\ baseURL' = baseURL)
            /\ pc' = "start" => (err' = "" /\ content' = source'.body)
       /\ pc \in {"start", "master", "media"} =>
            (pc' \in {"master", "media", "done"} /\ err' = "")
       /\ (pc # "done" /\ pc' = "done") => returned' = <<manifest'>>]_vars

\* C15's case: a call failed on a parser whose baseURL an earlier call had
\* set, to the directory of another source.
C15_Witness ==
    /\ pc = "failed"
    /\ source.kind = "url"
    /\ source.StatusCode = 404
    /\ baseURL # <<>>
    /\ baseURL # getBaseURL(source.name)
    /\ returned = <<>>

\* The text starts with http:// or https://.
IsAbsolute(u) ==
    /\ Len(u) >= 4
    /\ u[1] \in {"http", "https"}
    /\ SubSeq(u, 2, 4) = <<":", "/", "/">>

\* C16: a call of ResolveURL leaves baseURL as it is, and for an argument
\* that starts with http:// or https:// it returns the argument, on the
\* argument itself and on its own result, whatever baseURL is.
C16_AbsoluteUnchanged ==
    [][resolved' # resolved =>
          /\ baseURL' = baseURL
          /\ IsAbsolute(relativeURL') =>
                \A i \in 1..Len(resolved') : resolved'[i] = relativeURL']_vars

\* C16's case: an absolute URL with a dot-dot element resolved twice on a
\* parser with an HTTP base comes back as it is.
C16_Witness ==
    /\ IsAbsolute(baseURL)
    /\ relativeURL = uOtherDots
    /\ resolved = <<uOtherDots, uOtherDots>>

\* RFC 3986, 5.2.4: the output buffer without its last segment and the "/"
\* before it.
WithoutLastSegment(out) == SubSeq(out, 1, LastIndexSlash(out))

\* RFC 3986, 5.2.4: remove_dot_segments, from the input buffer in to the
\* output buffer out.
RECURSIVE RemoveDotSegments(_, _)
RemoveDotSegments(in, out) ==
    IF in = <<>> THEN out
    ELSE IF HasPrefix(in, <<"..", "/">>)
    THEN RemoveDotSegments(SubSeq(in, 3, Len(in)), out)
    ELSE IF HasPrefix(in, <<".", "/">>)
    THEN RemoveDotSegments(SubSeq(in, 3, Len(in)), out)
    ELSE IF HasPrefix(in, <<"/", ".", "/">>)
    THEN RemoveDotSegments(SubSeq(in, 3, Len(in)), out)
    ELSE IF in = <<"/", ".">>
    THEN RemoveDotSegments(<<"/">>, out)
    ELSE IF HasPrefix(in, <<"/", "..", "/">>)
    THEN RemoveDotSegments(SubSeq(in, 3, Len(in)), WithoutLastSegment(out))
    ELSE IF in = <<"/", "..">>
    THEN RemoveDotSegments(<<"/">>, WithoutLastSegment(out))
    ELSE IF in = <<".">> \/ in = <<"..">>
    THEN out
    ELSE LET next == {k \in 2..Len(in) : in[k] = "/"}
             cut == IF next = {} THEN Len(in) + 1
                    ELSE CHOOSE k \in next : \A j \in next : k <= j
         IN  RemoveDotSegments(SubSeq(in, cut, Len(in)),
                               out \o SubSeq(in, 1, cut - 1))

\* Where the path of an http(s) URL starts: at the first "/" after the
\* host, or after the end.
PathStart(u) ==
    LET slashes == {k \in 5..Len(u) : u[k] = "/"}
    IN  IF slashes = {} THEN Len(u) + 1
        ELSE CHOOSE k \in slashes : \A j \in slashes : k <= j

\* RFC 3986, 5.2.2 and 5.2.3, for a reference r that is a path: the target
\* has the scheme and the authority of the base b, and the path of r
\* merged with the path of b, dot segments removed.
StandardResolution(b, r) ==
    LET root == SubSeq(b, 1, PathStart(b) - 1)
        basePath == SubSeq(b, PathStart(b), Len(b))
        merged == IF basePath = <<>> THEN <<"/">> \o r
                  ELSE WithoutLastSegment(basePath) \o <<"/">> \o r
    IN  IF r = <<>> THEN b
        ELSE IF r[1] = "/" THEN root \o RemoveDotSegments(r, <<>>)
        ELSE root \o RemoveDotSegments(merged, <<>>)

\* The elements of a path that remain when, from right to left, empty and
\* dot elements are dropped and each dot-dot drops the nearest element left
\* of it; skip counts the dot-dots that have dropped nothing yet.
RECURSIVE KeptElements(_, _, _)
KeptElements(elems, skip, rooted) ==
    IF elems = <<>>
    THEN IF rooted THEN <<>> ELSE [i \in 1..skip |-> <<"..">>]
    ELSE LET e == elems[Len(elems)]
             front == SubSeq(elems, 1, Len(elems) - 1)
         IN  IF e = <<>> \/ e = <<".">>
             THEN KeptElements(front, skip, rooted)
             ELSE IF e = <<"..">>
             THEN KeptElements(front, skip + 1, rooted)
             ELSE IF skip > 0
             THEN KeptElements(front, skip - 1, rooted)
             ELSE Append(KeptElements(front, skip, rooted), e)

\* The lexical join of a directory and a reference: the shortest path that
\* names, element by element, what dir/r names.
LexicalJoin(dir, r) ==
    LET p == IF dir = <<>> THEN r ELSE dir \o <<"/">> \o r
        rooted == p # <<>> /\ p[1] = "/"
        kept == KeptElements(Elements(p), 0, rooted)
    IN  IF p = <<>> THEN <<>>
        ELSE IF kept = <<>> THEN (IF rooted THEN <<"/">> ELSE <<".">>)
        ELSE (IF rooted THEN <<"/">> ELSE <<>>) \o JoinSlash(kept)

\* C17: for an argument that does not start with http:// or https://,
\* ResolveURL returns the standard resolution against baseURL when baseURL
\* is an HTTP(S) URL, and the lexical join of baseURL and the argument
\* otherwise.
C17_StandardResolutionOrJoin ==
    (Len(resolved) = 1 /\ ~IsAbsolute(relativeURL)) =>
        resolved[1] = IF IsAbsolute(baseURL)
                      THEN StandardResolution(baseURL, relativeURL)
                      ELSE LexicalJoin(baseURL, relativeURL)

(***************************************************************************)
(* The navigable item extractor.                                           *)
(***************************************************************************)
\* The number of double quotes of s.
RECURSIVE QuoteCount(_)
QuoteCount(s) ==
    IF s = <<>> THEN 0
    ELSE (IF Head(s) = "\"" THEN 1 ELSE 0) + QuoteCount(Tail(s))

Min(S) == CHOOSE x \in S : \A y \in S : x <= y

\* The commas of value that stand outside every pair of double quotes.
CommasOutsideQuotes(value) ==
    {k \in 1..Len(value) :
        /\ value[k] = ","
        /\ QuoteCount(SubSeq(value, 1, k - 1)) % 2 = 0}

\* The target of a tag line as section 4.7 words it: what follows the first
\* URI=, up to the next double quote when it opens with one (none without a
\* closing quote), else up to the next top-level comma or the end of line.
URITarget(line) ==
    LET at == Index(line, <<"URI", "=">>)
        value == SubSeq(line, at + 3, Len(line))
        quoted == Tail(value)
        commas == CommasOutsideQuotes(value)
    IN  IF at = -1 \/ value = <<>> THEN <<>>
        ELSE IF Head(value) = "\""
        THEN IF Index(quoted, <<"\"">>) = -1 THEN <<>>
             ELSE SubSeq(quoted, 1, Index(quoted, <<"\"">>))
        ELSE IF commas = {} THEN value
        ELSE SubSeq(value, 1, Min(commas) - 1)

NavigableTag(line) ==
    HasPrefix(line, pIFrameStreamInf) \/ HasPrefix(line, pMedia)

\* The trimmed lines of the Manifest a renderer was called on.
RenderedLines ==
    LET lines == Split(navigableItems[1].manifest[1].Content)
    IN  [n \in 1..Len(lines) |-> TrimSpace(lines[n])]

\* C18: GetNavigableItems maps line number n exactly when the trimmed line n
\* is non-empty and either does not start with "#", and then to the trimmed
\* line itself, or is a #EXT-X-I-FRAME-STREAM-INF: or #EXT-X-MEDIA: line in
\* which a URI value is found; empty lines, comments and every other tag,
\* #EXT-X-KEY and #EXT-X-MAP included, are absent.
C18_NavigableLines ==
    (navigableItems # <<>> /\ navigableItems[1].manifest # <<>>) =>
        LET items == navigableItems[1].items
        IN  /\ DOMAIN items \subseteq DOMAIN RenderedLines
            /\ \A n \in DOMAIN RenderedLines :
                    LET line == RenderedLines[n]
                    IN  /\ n \in DOMAIN items <=>
                            /\ line # <<>>
                            /\ \/ Head(line) # "#"
                               \/ /\ NavigableTag(line)
                                  /\ URITarget(line) # <<>>
                        /\ (line # <<>> /\ Head(line) # "#") =>
                                items[n] = line

\* A key tag with a URI left out between a mapped media tag and a mapped
\* segment URI that lost the blanks around it.
C18_Witness ==
    /\ navigableItems # <<>>
    /\ navigableItems[1].manifest # <<>>
    /\ content = JoinLines(<<lMediaAudio, lKey1, lSegmentURIPadded>>)
    /\ DOMAIN navigableItems[1].items = {1, 3}
    /\ navigableItems[1].items[3] = <<"a.ts">>

\* C19: on a #EXT-X-I-FRAME-STREAM-INF: or #EXT-X-MEDIA: line the target is
\* what follows URI=: up to the next double quote when the value opens with
\* one, nothing when that quote is never closed, and else up to the next
\* top-level comma or the end of the line.
C19_URIAttributeTarget ==
    (navigableItems # <<>> /\ navigableItems[1].manifest # <<>>) =>
        LET items == navigableItems[1].items
        IN  \A n \in DOMAIN RenderedLines :
                LET line == RenderedLines[n]
                IN  NavigableTag(line) =>
                        IF URITarget(line) = <<>>
                        THEN n \notin DOMAIN items
                        ELSE /\ n \in DOMAIN items
                             /\ items[n] = URITarget(line)

(***************************************************************************)
(* Parsing a Manifest's own text again.                                    *)
(***************************************************************************)
\* A Manifest with the *Key and *Map of its segments replaced by the objects
\* they point to.
Structure(m) ==
    [kind |-> m.Type,
     lines |-> m.Lines,
     variants |-> m.Variants,
     segments |->
        [i \in 1..Len(m.Segments) |->
            [m.Segments[i] EXCEPT
                !.Key = KeyValue(keyHeap, @),
                !.Map = MapValue(mapHeap, @)]],
     tags |-> m.Tags,
     version |-> m.Version,
     targetDuration |-> m.TargetDuration,
     mediaSequence |-> m.Sequence]

C21_FreshParserPerFetch == \A t \in tasks : t.parser # AppParser

\* The Manifests the views of the application show or have kept.
ShownManifests ==
    (IF currentView = <<>> THEN {} ELSE {currentView[1].Manifest})
        \cup {navStack[i].Manifest : i \in DOMAIN navStack}

\* A step of a goroutine: it ends with a function handed to the UI goroutine.
GoroutineStep == Len(queue') > Len(queue)

\* C22: a goroutine that fetches never writes currentView, navStack or the
\* manifest of a view; a Manifest of a background fetch comes to them only
\* when the UI goroutine runs the function that was queued with it.
C22_SingleWriter ==
    [][/\ GoroutineStep => UNCHANGED <<currentView, navStack>>
       /\ \A m \in ShownManifests' \ ShownManifests :
            (m # <<>> /\ m[1].fetch > 0) =>
                /\ queue # <<>>
                /\ Head(queue).manifest = m
                /\ Len(queue') < Len(queue)]_vars

\* A media view that shows the Manifest of the second fetch above the
\* master view of the first parse, with nothing queued.
C22_Witness ==
    /\ currentView # <<>>
    /\ currentView[1].Type = "media"
    /\ currentView[1].Manifest[1].fetch = 2
    /\ Len(navStack) = 1
    /\ navStack[1].Manifest[1].fetch = 0
    /\ queue = <<>>

\* C23: every forward navigation saves the type and the manifest of the view
\* it leaves on top of the stack; Esc restores a view of the type and the
\* manifest saved last (from a segment view: the media view it was opened
\* from) and removes exactly that entry; Esc on an empty stack stops the
\* application.
C23_StackPreservesPath ==
    [][/\ Len(navStack') > Len(navStack) =>
            navStack' = Append(navStack, getCurrentViewState)
       /\ keyPressed' = "Esc" =>
            IF navStack = <<>>
            THEN running' = "stopped" /\ UNCHANGED <<currentView, navStack>>
            ELSE /\ running' = "running"
                 /\ currentView' # <<>>
                 /\ currentView'[1].Type = navStack[Len(navStack)].Type
                 /\ currentView'[1].Manifest =
                        navStack[Len(navStack)].Manifest
                 /\ navStack' = SubSeq(navStack, 1, Len(navStack) - 1)
      ]_vars

(***************************************************************************)
(* Smart scrolling.                                                        *)
(***************************************************************************)
\* Row r of the text is inside the viewport of v.
Visible(v, r) == v.lineOffset <= r /\ r <= v.lineOffset + v.height - 1

\* C24: when Up or Down moves the selection to a line, the offset changes
\* only if the row of that line was outside the viewport; afterwards the row
\* is inside the viewport, at every height from 1 on, and the offset is not
\* negative.
C24_SmartScrolling ==
    [][(/\ keyPressed' \in {"Up", "Down"}
        /\ mv'.currentLine # mv.currentLine) =>
        /\ Visible(mv, mv'.currentLine - 1) =>
                mv'.lineOffset = mv.lineOffset
        /\ mv'.lineOffset >= 0
        /\ Visible(mv', mv'.currentLine - 1)]_vars

(***************************************************************************)
(* Line classification.                                                    *)
(***************************************************************************)
\* The positions of the line feeds of the document.
LineFeeds == {i \in 1..Len(content) : content[i] = "\n"}

\* The positions of the document that belong to line k and hold no blank.
Ink(k) ==
    {j \in 1..Len(content) :
        /\ content[j] \notin Whitespace
        /\ Cardinality({q \in LineFeeds : q < j}) = k - 1}

\* Line k without the blanks around it.
LineText(k) ==
    IF Ink(k) = {} THEN <<>> ELSE SubSeq(content, Min(Ink(k)), Max(Ink(k)))

\* The kinds line k is of, by how its text starts.
LineKinds(k) ==
    LET t == LineText(k)
        hash == t # <<>> /\ t[1] = "#"
        ext == hash /\ Len(t) >= 2 /\ t[2] = "EXT"
    IN  {kind \in {"empty", "tag", "comment", "uri"} :
            \/ kind = "empty" /\ t = <<>>
            \/ kind = "tag" /\ ext
            \/ kind = "comment" /\ hash /\ ~ext
            \/ kind = "uri" /\ t # <<>> /\ ~hash}

\* C25: the lines of the manifest are the lines of the document in order,
\* line i numbered i, with its text without the blanks around it, and of
\* exactly one kind: empty, tag (#EXT...), comment (# but not #EXT) or uri.
C25_EveryLineOneKind ==
    pc # "start" =>
        /\ Len(manifest.Lines) = Cardinality(LineFeeds) + 1
        /\ \A i \in 1..Len(manifest.Lines) :
                /\ manifest.Lines[i].Number = i
                /\ manifest.Lines[i].Content = LineText(i)
                /\ LineKinds(i) = {manifest.Lines[i].Type}

\* A parsed document with a padded tag line, a comment that holds a tag
\* name, a URI line and an empty line.
C25_Witness ==
    /\ pc # "start"
    /\ {manifest.Lines[i].Type : i \in 1..Len(manifest.Lines)}
            = {"empty", "tag", "comment", "uri"}
    /\ \E i \in 1..Len(manifest.Lines) :
            /\ manifest.Lines[i].Content = TrimSpace(lVersionPadded)
            /\ manifest.Lines[i].Content # lVersionPadded
    /\ \E i \in 1..Len(manifest.Lines) :
            manifest.Lines[i].Content = lCommentWithTag

(***************************************************************************)
(* The resolver of the application.                                        *)
(***************************************************************************)
\* C26: when Enter resolves the URI of the selected line (on a master view
\* in navigateToSubManifest, on a media view in navigateToSegment), the base
\* of the resolver, App.parser, is the base of the manifest on display.
C26_ResolverFollowsDisplay ==
    [][(/\ keyPressed' = "Enter"
        /\ selectable
        /\ currentView[1].Type \in {"master", "media"})
        => parsers[AppParser] = currentView[1].Manifest[1].BaseURL]_vars

(***************************************************************************)
(* References relative to the directory of the manifest.                   *)
(***************************************************************************)
\* The directories d1 ... dn of scheme://host/d1/.../dn/name: the slashes of
\* the URL but the two of "//", the one after the host and no more.
Directories(u) == Cardinality({i \in 1..Len(u) : u[i] = "/"}) - 3

\* A reference with no scheme, no leading slash and no dot segment.
PlainReference(r) ==
    /\ r # <<>>
    /\ r[1] # "/"
    /\ ~HasPrefix(r, sHTTP) /\ ~HasPrefix(r, sHTTPS)
    /\ \A i \in 1..Len(r) : r[i] \notin {".", ".."}

\* C27: after ParseFromURL of scheme://host/d1/.../dn/name.m3u8 with n >= 1,
\* ResolveURL of a reference r with no scheme, no leading slash and no dot
\* segment returns scheme://host/d1/.../dn/r.
C27_RelativeToManifestDirectory ==
    (/\ pc = "done"
     /\ source.kind = "url"
     /\ err = ""
     /\ Directories(source.name) >= 1
     /\ Len(resolved) >= 1
     /\ PlainReference(relativeURL))
        => resolved[1] = SubSeq(source.name, 1, Len(source.name) - 1)
                            \o relativeURL

(***************************************************************************)
(* The current key.                                                        *)
(***************************************************************************)
\* The text after METHOD= in a #EXT-X-KEY: line.
MethodOf(line) ==
    LET i == CHOOSE i \in 1..Len(line) - 2 :
                line[i] = "METHOD" /\ line[i + 1] = "="
    IN  <<line[i + 2]>>

\* This step reads a #EXTINF: line and starts a segment.
SegmentStarted ==
    /\ lineNumber' = lineNumber + 1
    /\ HasPrefix(manifest.Lines[lineNumber'].Content, pExtinf)
    /\ currentSegment' # <<>>

\* C28: once a #EXT-X-KEY line has been read the current key is never nil
\* again: it is the key of the last such line read, METHOD=NONE included,
\* and every segment started from then on has that key.
C28_KeyNeverCleared ==
    [][pc = "media" =>
        LET keyLines == LinesWithPrefix(pKey, lineNumber')
            last == manifest.Lines[Max(keyLines)].Content
        IN  keyLines # {} =>
                /\ currentKey' # 0
                /\ keyHeap'[currentKey'].Method = MethodOf(last)
                /\ SegmentStarted =>
                        /\ currentSegment'[1].Key # 0
                        /\ keyHeap'[currentSegment'[1].Key].Method
                                = MethodOf(last)]_vars

\* A media manifest with METHOD=AES-128, then METHOD=NONE, then a segment:
\* the segment has a key, of method NONE.
C28_Witness ==
    /\ MediaDone
    /\ \E k \in 1..Len(keyHeap) : keyHeap[k].Method = <<"AES-128">>
    /\ \E i \in 1..Len(manifest.Segments) :
            LET s == manifest.Segments[i]
            IN  /\ s.Key # 0
                /\ keyHeap[s.Key].Method = <<"NONE">>
                /\ \E k \in 1..s.Key - 1 : keyHeap[k].Method = <<"AES-128">>

(***************************************************************************)
(* Numeric tags.                                                           *)
(***************************************************************************)
NumericTags == {pVersion, pTargetDuration, pMediaSequence}

\* The field of Manifest a numeric tag stands for.
Field(m, p) ==
    IF p = pVersion THEN m.Version
    ELSE IF p = pTargetDuration THEN m.TargetDuration
    ELSE m.Sequence

\* parseMasterManifest looks at the version only, parseMediaManifest at the
\* three tags.
Handled(p) == p = pVersion \/ manifest.Type = "media"

\* The text after the prefix p of a line.
ValueAfter(line, p) == SubSeq(line, Len(p) + 1, Len(line))

\* A text of decimal digits, and the number it writes.
IntegerText(v) == v # <<>> /\ \A i \in 1..Len(v) : v[i] \in Digits

RECURSIVE Decimal(_)
Decimal(v) ==
    IF v = <<>> THEN 0
    ELSE 10 * Decimal(SubSeq(v, 1, Len(v) - 1)) + DigitVal[v[Len(v)]]

\* The lines of the whole document that start with p and hold an integer.
IntegerLines(p) ==
    {k \in LinesWithPrefix(p, Len(manifest.Lines)) :
        IntegerText(ValueAfter(manifest.Lines[k].Content, p))}

\* C29: a #EXT-X-VERSION:, #EXT-X-TARGETDURATION: or #EXT-X-MEDIA-SEQUENCE:
\* line sets its field (and the last one the running sequence) when its
\* value is an integer; otherwise the three fields and the running sequence
\* keep their values; either way the parse goes on and the line is recorded
\* in the tags.  When the parse returns, each field holds the value of the
\* last line of the document for it whose value is an integer.
C29_NumericTags ==
    [][/\ (pc \in {"master", "media"} /\ lineNumber' = lineNumber + 1) =>
            LET line == manifest.Lines[lineNumber'].Content
            IN  \A p \in NumericTags :
                    (HasPrefix(line, p) /\ Handled(p)) =>
                        /\ IF IntegerText(ValueAfter(line, p))
                           THEN /\ Field(manifest', p)
                                        = Decimal(ValueAfter(line, p))
                                /\ sequence' =
                                        IF p = pMediaSequence
                                        THEN Decimal(ValueAfter(line, p))
                                        ELSE sequence
                           ELSE /\ Field(manifest', p) = Field(manifest, p)
                                /\ sequence' = sequence
                        /\ \A q \in NumericTags \ {p} :
                                Field(manifest', q) = Field(manifest, q)
                        /\ pc' = pc
                        /\ Len(manifest'.Tags) = Len(manifest.Tags) + 1
                        /\ LET tag == manifest'.Tags[Len(manifest'.Tags)]
                           IN  /\ tag.LineNumber = lineNumber'
                               /\ tag.Name \o <<":">> \o tag.Value = line
       /\ (pc # "done" /\ pc' = "done") =>
            /\ returned' # <<>>
            /\ \A p \in NumericTags :
                    Handled(p) =>
                        Field(returned'[1], p) =
                            IF IntegerLines(p) = {} THEN 0
                            ELSE Decimal(ValueAfter(
                                    manifest.Lines[Max(IntegerLines(p))].Content,
                                    p))]_vars

(***************************************************************************)
(* Byte ranges.                                                            *)
(***************************************************************************)
\* C30: a #EXT-X-BYTERANGE: line sets the byte range of the pending segment
\* and of nothing else, and changes no segment when none is pending; a
\* segment started by #EXTINF has no byte range; a committed segment has the
\* byte range of the last #EXT-X-BYTERANGE: line read since its #EXTINF, or
\* none.
C30_ByteRangeOnPendingOnly ==
    [][(pc = "media" /\ lineNumber' = lineNumber + 1) =>
        LET n == lineNumber'
            line == manifest.Lines[n].Content
            started == Max(LinesWithPrefix(pExtinf, n))
            ranges == {k \in LinesWithPrefix(pByteRange, n) : k > started}
        IN  /\ HasPrefix(line, pByteRange) =>
                /\ segments' = segments
                /\ IF currentSegment = <<>>
                   THEN currentSegment' = <<>>
                   ELSE currentSegment' =
                            <<[currentSegment[1] EXCEPT
                                !.ByteRange = ValueAfter(line, pByteRange)]>>
            /\ SegmentStarted => currentSegment'[1].ByteRange = <<>>
            /\ Len(segments') = Len(segments) + 1 =>
                /\ SubSeq(segments', 1, Len(segments)) = segments
                /\ segments'[Len(segments')].ByteRange =
                        IF ranges = {} THEN <<>>
                        ELSE ValueAfter(manifest.Lines[Max(ranges)].Content,
                                        pByteRange)]_vars

\* A byte range read with no segment pending, then a segment with a byte
\* range, then a segment without one.
C30_Witness ==
    /\ MediaDone
    /\ HasPrefix(manifest.Lines[1].Content, pByteRange)
    /\ Len(manifest.Segments) = 2
    /\ manifest.Segments[1].ByteRange = ValueAfter(lByteRange1, pByteRange)
    /\ manifest.Segments[2].ByteRange = <<>>

(***************************************************************************)
(* Manifests are not changed.                                              *)
(***************************************************************************)
\* The Manifests the application refers to: those of the views and those
\* that wait in the queue.
ManifestRefs ==
    {m[1] : m \in {r \in ShownManifests : r # <<>>}}
        \cup {queue[i].manifest[1] :
                i \in {j \in DOMAIN queue : queue[j].manifest # <<>>}}

\* The UI goroutine runs the function a refresh queued.
RefreshCallback ==
    /\ running = "running"
    /\ queue # <<>>
    /\ Head(queue).kind = "refresh"
    /\ queue' = Tail(queue)

C34_CurrentLineNavigable ==
    mv.navigableItems # {} => mv.currentLine \in mv.navigableItems

\* A view, after a refresh that gave it other navigable lines and a Down,
\* on a navigable line that is not the first one.
C34_Witness ==
    /\ keyPressed = "Down"
    /\ mv.currentLine \in mv.navigableItems
    /\ \E l \in mv.navigableItems : l < mv.currentLine
    /\ 1 \notin mv.navigableItems

\* The navigable lines below and above the current line of v.
Below(v) == {l \in v.navigableItems : l > v.currentLine /\ l <= v.lines}

Above(v) == {l \in v.navigableItems : l < v.currentLine /\ l >= 1}

\* C35: Down moves the current line to the smallest navigable line number
\* greater than it, Up to the largest smaller one, and neither moves it when
\* there is no such line; Up after a Down that moved gives the line back.
C35_NearestLineNoWrap ==
    /\ navigateDown(mv).currentLine =
            IF Below(mv) = {} THEN mv.currentLine ELSE Min(Below(mv))
    /\ navigateUp(mv).currentLine =
            IF Above(mv) = {} THEN mv.currentLine ELSE Max(Above(mv))
    /\ navigateDown(mv).currentLine # mv.currentLine =>
            navigateUp(navigateDown(mv)).currentLine = mv.currentLine

\* A view on its last navigable line, reached by Down, with navigable lines
\* above it: Down moves nothing, Up moves.
C35_Witness ==
    /\ keyPressed = "Down"
    /\ Below(mv) = {}
    /\ Above(mv) # {}
    /\ navigateDown(mv) = mv
    /\ navigateUp(mv).currentLine < mv.currentLine

(***************************************************************************)
(* Enter on a segment line.                                                *)
(***************************************************************************)
\* The URI lines of the document that commit a segment: a #EXTINF: line
\* stands before them with no URI line in between.
CommitLines ==
    {i \in 1..Len(manifest.Lines) :
        /\ manifest.Lines[i].Type = "uri"
        /\ \E e \in 1..(i - 1) :
              /\ HasPrefix(manifest.Lines[e].Content, pExtinf)
              /\ \A j \in (e + 1)..(i - 1) : manifest.Lines[j].Type # "uri"}

\* The segment committed from line i, one of CommitLines.
SegmentOfLine(i) ==
    manifest.Segments[Cardinality({c \in CommitLines : c <= i})]

\* C32: Enter on a URI line of the media view calls the segment navigation
\* callback with the segment that was committed from that line, also when
\* other segments of the manifest have the same URI.
C32_EnterOpensSegmentOfLine ==
    (opened # <<>> /\ opened[1].line \in CommitLines) =>
        /\ opened[1].callback = "segmentNavigation"
        /\ opened[1].segment = <<SegmentOfLine(opened[1].line)>>
\* The UI goroutine runs the completion callback of a sub-manifest load.
NavigateLoadDone ==
    /\ queue # <<>>
    /\ Head(queue).kind = "navigate"
    /\ Len(queue') < Len(queue)

\* C33: every sub-manifest load that finishes hides the loading modal and
\* stops its ticker; a failed load shows an error in the status bar and
\* leaves the current view and the navigation stack as they were just before
\* the callback; a successful load pushes the state of the previous view and
\* makes the view of the new manifest current.
C33_LoadCompletion ==
    [][NavigateLoadDone =>
        LET f == Head(queue)
        IN  /\ ~loading'
            /\ modal'.loadingModal = 0
            /\ modal'.loadingTicker = 0
            /\ f.load \in modal'.stopped
            /\ f.err # "" =>
                  /\ modal'.status = "error"
                  /\ UNCHANGED <<currentView, navStack>>
            /\ f.err = "" =>
                  /\ navStack' = Append(navStack, getCurrentViewState)
                  /\ currentView' =
                        <<newManifestView(f.manifest[1].Type, f.manifest)>>
      ]_vars

\* A first load succeeded and was left with Esc, a second load failed.
C33_Witness ==
    /\ modal.status = "error"
    /\ modal.stopped = {1, 2}
    /\ ~loading
    /\ currentView # <<>>

\* A sub-manifest load is in flight: its goroutine has not finished, or its
\* completion callback waits in the queue.
LoadInFlight ==
    \/ \E t \in tasks : t.kind = "navigate"
    \/ \E i \in 1..Len(queue) : queue[i].kind = "navigate"

\* C36: while a sub-manifest load is in flight the current view and the
\* navigation stack do not change, and when the load completes the current
\* view is the view the load was started from.
C36_LoadKeepsItsView ==
    [][/\ (LoadInFlight /\ ~NavigateLoadDone) =>
            UNCHANGED <<currentView, navStack>>
       /\ NavigateLoadDone => Head(queue).live
      ]_vars

\* The UI goroutine runs an update of the animation of load n and the modal
\* takes it.
AnimationUpdate(n) ==
    /\ queue # <<>>
    /\ Head(queue).kind = "spin"
    /\ Head(queue).load = n
    /\ Len(queue') < Len(queue)
    /\ modal.loadingModal # 0

\* C39: the animation goroutine never dereferences a nil ticker:
\* hideLoadingModal does not take effect before the goroutine has read
\* a.loadingTicker.C, and after the hideLoadingModal that stops its ticker
\* the goroutine performs no further update of the modal.
C39_AnimationSafe ==
    [][/\ \A g \in modal'.spinners :
            /\ g.ticker # 0
            /\ g.ticker = -1 => g.load \notin modal'.stopped
       /\ \A n \in 1..fetches : AnimationUpdate(n) => n \notin modal.stopped
      ]_vars

\* The lines of the document that are URI lines, and those that start with
\* prefix p.
URILineNumbers ==
    {k \in 1..(Cardinality(LineFeeds) + 1) : "uri" \in LineKinds(k)}

StartLines(p) ==
    {k \in 1..(Cardinality(LineFeeds) + 1) : HasPrefix(LineText(k), p)}

ParsableExtinfLines ==
    {k \in StartLines(pExtinf) : ParseFloat(durationStr(LineText(k))).ok}

\* The URIs of the entries are, in order, the texts of URI lines numbered
\* upwards from line k.
RECURSIVE InOrderOfURILines(_, _)
InOrderOfURILines(entries, k) ==
    IF entries = <<>> THEN TRUE
    ELSE LET at == {i \in URILineNumbers :
                        i >= k /\ LineText(i) = entries[1].URI}
         IN  at # {} /\ InOrderOfURILines(Tail(entries), Min(at) + 1)

\* What one step of a scan loop does to a list of entries and its pending
\* entry: at most one entry is appended, only by a URI line and only from
\* the pending entry, which is pending no longer.
CommitStep(list, listAfter, pending, pendingAfter) ==
    /\ Len(listAfter) \in {Len(list), Len(list) + 1}
    /\ SubSeq(listAfter, 1, Len(list)) = list
    /\ Len(listAfter) > Len(list) =>
          /\ "uri" \in LineKinds(lineNumber')
          /\ pending # <<>>
          /\ listAfter[Len(listAfter)] =
                [pending[1] EXCEPT !.URI = LineText(lineNumber')]
          /\ pendingAfter = <<>>
    /\ ("uri" \in LineKinds(lineNumber') /\ pending = <<>>) =>
          listAfter = list

\* C37: each URI line commits at most one entry and each #EXT-X-STREAM-INF:
\* (parsable #EXTINF:) line contributes to at most one Variant (Segment): a
\* URI line with nothing pending adds nothing, a second tag before a URI line
\* replaces the pending entry, a pending entry at the end of input is
\* discarded; the variants (segments) are at most as many as these tags and
\* as the URI lines, and come in the order of their URI lines.
C37_AtMostOneEntryPerLine ==
    [][/\ lineNumber' = lineNumber + 1 =>
            /\ CommitStep(variants, variants', currentVariant,
                          currentVariant')
            /\ CommitStep(segments, segments', currentSegment,
                          currentSegment')
            /\ (pc = "master" /\ lineNumber' \in StartLines(pStreamInf)) =>
                  currentVariant' = <<newVariant(LineText(lineNumber'))>>
            /\ (pc = "media" /\ lineNumber' \in ParsableExtinfLines) =>
                  /\ currentSegment' # <<>>
                  /\ currentSegment'[1].Sequence = sequence
                  /\ currentSegment'[1].URI = <<>>
       /\ (pc # "done" /\ pc' = "done") =>
            /\ manifest'.Variants = variants
            /\ manifest'.Segments = segments
            /\ Len(manifest'.Variants) <= Cardinality(StartLines(pStreamInf))
            /\ Len(manifest'.Variants) <= Cardinality(URILineNumbers)
            /\ Len(manifest'.Segments) <= Cardinality(ParsableExtinfLines)
            /\ Len(manifest'.Segments) <= Cardinality(URILineNumbers)
            /\ InOrderOfURILines(manifest'.Variants, 1)
            /\ InOrderOfURILines(manifest'.Segments, 1)
      ]_vars

\* A master playlist with two #EXT-X-STREAM-INF: lines before its URI line
\* and a third one pending at the end.
C37_Witness ==
    /\ MasterDone
    /\ Len(manifest.Variants) = 1
    /\ Cardinality(StartLines(pStreamInf)) = 3
    /\ Cardinality(URILineNumbers) = 1
    /\ currentVariant # <<>>

\* The URI entry of parseAttributes applied to what follows the colon of a
\* #EXT-X-MEDIA: or #EXT-X-I-FRAME-STREAM-INF: line, empty when there is
\* none.
URIEntry(line) ==
    MapGet(parseAttributes(
               TrimPrefix(line, IF HasPrefix(line, pMedia)
                                THEN pMedia ELSE pIFrameStreamInf)),
           sURI)

\* C38: on every #EXT-X-MEDIA: or #EXT-X-I-FRAME-STREAM-INF: line the target
\* GetNavigableItems records is the URI entry of parseAttributes applied to
\* the text after the colon when that entry exists and is not empty, and
\* the line is not in the mapping otherwise.
C38_ExtractorAgreesWithParser ==
    (navigableItems # <<>> /\ navigableItems[1].manifest # <<>>) =>
        LET items == navigableItems[1].items
        IN  \A n \in DOMAIN RenderedLines :
                LET line == RenderedLines[n]
                IN  NavigableTag(line) =>
                        IF URIEntry(line) = <<>>
                        THEN n \notin DOMAIN items
                        ELSE /\ n \in DOMAIN items
                             /\ items[n] = URIEntry(line)

====
